---- MODULE Spec2Model ----
(***************************************************************************)
(* Model of golink's link store (src/internal/store/store.go): the         *)
(* in-memory map guarded by a sync.RWMutex, and its persistence to a JSON  *)
(* file through a temp file and a rename.  Request handlers are the        *)
(* processes; each runs one store call at a time, one step per lock        *)
(* operation, map access or system call.                                   *)
(* On top of the store: New and Store.load from any file content, the      *)
(* HTTP handler of package web (validation, dispatch, responses) and the   *)
(* host routing and the shutdown of package server.  Last, the create      *)
(* request of the single-file program (src/main.go), whose store is a      *)
(* package variable saved in place.                                        *)
(***************************************************************************)
EXTENDS Integers, Sequences, FiniteSets, TLC

\* Bounds of the model.
NProcs == 2
NKeys == 2
NVals == 2
MaxFaults == 1
MaxCalls == 3

Procs == 1..NProcs
Keys == 1..NKeys
Vals == 1..NVals

\* The value the map lookup reports for a key that is absent (ok = false).
NoVal == 0

VARIABLES
    links,      \* s.links: Keys -> Vals \cup {NoVal}
    nilMap,     \* s.links is the nil map (it reads as the empty map)
    boot,       \* "new" until New has run, then "running" or "failed"; Run
                \* goes on to "saving", "shutdown", "stopped" or "timeout"
    req,        \* the HTTP request each handler serves
    resp,       \* the response it has written
    muW,        \* s.mu: the process holding the write lock, 0 when free
    muR,        \* s.mu: the processes holding the read lock
    pc,         \* position of each request handler
    opn,        \* the store call each handler runs
    key,        \* its key argument
    val,        \* its url argument
    iter,       \* save/All: keys the range loop has still to visit
    snap,       \* save/All: the snapshot map being filled
    data,       \* save: the marshalled bytes
    fd,         \* save: where the inode of the open descriptor lives now
    ret,        \* the call's results, once it has returned
    tmpFile,    \* the file at dbFile + ".tmp"
    dbFile,     \* the file at dbFile
    faults,     \* injected filesystem failures so far
    calls,      \* store calls made so far
    since,      \* history: values given to key[t] since t's own mutation
    lastSet,    \* history: the Set whose write is the latest mutation of a key
    promise,    \* history: value of a returned Set not mutated since
    anyErr,     \* history: some call has returned an error
    setKeys,    \* history: the keys Set so far, {0} once a call was no Set of a new key
    saves       \* history: Save calls that returned nil since the last mutation, 2 at most

vars == <<links, nilMap, boot, req, resp, muW, muR, pc, opn, key, val, iter,
          snap, data, fd, ret, tmpFile, dbFile, faults, calls, since, lastSet, promise,
          anyErr, setKeys, saves>>

mem == <<links, nilMap>>
other == <<boot, req, resp>>
lock == <<muW, muR>>
args == <<opn, key, val>>
locals == <<iter, snap, data, fd>>
files == <<tmpFile, dbFile>>
hist == <<since, lastSet, promise, anyErr, setKeys, saves>>

----------------------------------------------------------------------------
\* Files and the JSON encoding.  A file's content is a sequence of tokens
\* <<k, v, c>>: a pair "k": "v" followed by a comma when c = 1, or one of
\* the three tokens below.

Open == <<0, 0, 0>>
Close == <<0, 1, 0>>
\* The JSON literal null.
Null == <<0, 2, 0>>

NoFile == [exists |-> FALSE, bytes |-> <<>>]
File(b) == [exists |-> TRUE, bytes |-> b]

EmptyMap == [k \in Keys |-> NoVal]
Present(m) == {k \in Keys : m[k] # NoVal}

\* json.MarshalIndent of a map[string]string: the keys in sorted order,
\* a comma after every pair but the last.
RECURSIVE EncodeFrom(_, _)
EncodeFrom(m, k) ==
    IF k > NKeys THEN <<>>
    ELSE IF m[k] = NoVal THEN EncodeFrom(m, k + 1)
    ELSE LET rest == EncodeFrom(m, k + 1)
         IN  << <<k, m[k], IF rest = <<>> THEN 0 ELSE 1>> >> \o rest

Encode(m) == <<Open>> \o EncodeFrom(m, 1) \o <<Close>>

IsPair(tok) == tok[1] \in Keys

\* json.Unmarshal into a map[string]string: an object whose pairs are
\* separated by commas, in any key order, a repeated key keeping its last
\* value.
WellFormed(b) ==
    /\ Len(b) >= 2
    /\ b[1] = Open
    /\ b[Len(b)] = Close
    /\ \A i \in 2..(Len(b) - 1) :
          /\ IsPair(b[i])
          /\ b[i][3] = (IF i = Len(b) - 1 THEN 0 ELSE 1)

Decode(b) ==
    [k \in Keys |->
        LET at == {i \in 2..(Len(b) - 1) : b[i][1] = k}
        IN  IF at = {} THEN NoVal
            ELSE b[CHOOSE i \in at : \A j \in at : j <= i][2]]

\* json.Unmarshal of null into a map sets the map to nil and reports no
\* error.
Unmarshals(b) == WellFormed(b) \/ b = <<Null>>

\* Mutation of LoadOk: a missing file is an error like any failed read.
LoadOkIfExists(f) == f.exists /\ (f.bytes = <<>> \/ Unmarshals(f.bytes))

\* Store.load: a missing file and a file of zero bytes both give the empty
\* map; anything else must decode.
LoadOk(f) == ~f.exists \/ f.bytes = <<>> \/ Unmarshals(f.bytes)

Load(f) == IF ~f.exists \/ f.bytes = <<>> THEN EmptyMap ELSE Decode(f.bytes)

\* write(2) of chunk through a descriptor just opened without O_APPEND:
\* the chunk goes to offset 0 and overwrites what is there; bytes of the
\* file beyond the chunk stay.
WriteAt(b, chunk) == chunk \o SubSeq(b, Len(chunk) + 1, Len(b))

----------------------------------------------------------------------------
\* The results of a call.
NoRet == [ok |-> FALSE, err |-> "none", val |-> NoVal, exp |-> NoVal]
Result(o, e, v, x) == [ok |-> o, err |-> e, val |-> v, exp |-> x]

InitMaps == {EmptyMap, [k \in Keys |-> IF k = 1 THEN 1 ELSE NoVal]}

\* An HTTP request: the Host header, the method, the URL path and the form
\* values "key" and "url", the strings given by their places in the tables
\* Hosts, Paths, FormKeys and FormUrls.
NoReq == [host |-> 0, method |-> "", path |-> 0, fkey |-> 0, furl |-> 0]

\* A response: the status code, the Location header, and who wrote it.
NoResp == [status |-> 0, location |-> <<>>, by |-> ""]

\* No handler runs, nothing has failed, the temp file does not exist.
InitRest ==
    /\ req = [t \in Procs |-> NoReq]
    /\ resp = [t \in Procs |-> NoResp]
    /\ tmpFile = NoFile
    /\ muW = 0
    /\ muR = {}
    /\ pc = [t \in Procs |-> "idle"]
    /\ opn = [t \in Procs |-> "none"]
    /\ key = [t \in Procs |-> 1]
    /\ val = [t \in Procs |-> NoVal]
    /\ iter = [t \in Procs |-> {}]
    /\ snap = [t \in Procs |-> EmptyMap]
    /\ data = [t \in Procs |-> <<>>]
    /\ fd = [t \in Procs |-> "none"]
    /\ ret = [t \in Procs |-> NoRet]
    /\ faults = 0
    /\ calls = 0
    /\ since = [t \in Procs |-> {}]
    /\ lastSet = [k \in Keys |-> 0]
    /\ promise = [k \in Keys |-> NoVal]
    /\ anyErr = FALSE
    /\ setKeys = {}
    /\ saves = 0

\* New: the store after loading the database file, which is missing or
\* holds the serialization of a mapping.
Init ==
    /\ dbFile \in {NoFile} \cup {File(Encode(m)) : m \in InitMaps \ {EmptyMap}}
    /\ links = Load(dbFile)
    /\ nilMap = FALSE
    /\ boot = "running"
    /\ InitRest

----------------------------------------------------------------------------
\* sync.RWMutex: Lock waits until no reader and no writer holds the lock,
\* RLock until no writer holds it.

\* Mutation of CanLock: the writer waits for other writers only, as if it
\* took the lock in read mode.
CanLockAmongReaders(t) == muW = 0

CanLock(t) == muW = 0 /\ muR = {}

\* (Go also makes a new reader wait while a writer is waiting; the model
\* lets that reader in, which adds interleavings and takes none away.)
CanRLock(t) == muW = 0

\* m[k] in Go: a key that is not in the map gives the zero value.  Key 0
\* stands for every key string the model has no number for; such a key is
\* never stored.
Lookup(m, k) == IF k \in DOMAIN m THEN m[k] ELSE NoVal

\* History kept for the properties: process t has just given key k the
\* value v (NoVal: deleted it); bySet tells a Set from an Update or Delete.
NoteMutation(t, k, v, bySet) ==
    /\ since' = [w \in Procs |->
                    IF w = t THEN {v}
                    ELSE IF since[w] # {} /\ key[w] = k THEN since[w] \cup {v}
                    ELSE since[w]]
    /\ lastSet' = [lastSet EXCEPT ![k] = IF bySet THEN t ELSE 0]
    /\ promise' = [promise EXCEPT ![k] = NoVal]
    /\ saves' = 0
    /\ UNCHANGED <<anyErr, setKeys>>

\* History: the call of t returns with error e.
NoteReturn(t, e) ==
    /\ anyErr' = (anyErr \/ e # "nil")
    /\ IF opn[t] = "Set" /\ lastSet[key[t]] = t
       THEN /\ promise' = [promise EXCEPT ![key[t]] = val[t]]
            /\ lastSet' = [lastSet EXCEPT ![key[t]] = 0]
       ELSE UNCHANGED <<promise, lastSet>>
    /\ saves' = IF opn[t] = "Save" /\ e = "nil" /\ saves < 2
                THEN saves + 1
                ELSE saves
    /\ UNCHANGED <<since, setKeys>>

----------------------------------------------------------------------------
\* A request handler calls the store.

Entry(name) ==
    CASE name = "Get" -> "get_rlock"
      [] name = "Set" -> "set_lock"
      [] name = "Delete" -> "del_lock"
      [] name = "Update" -> "upd_lock"
      [] name = "All" -> "all_rlock"
      [] name = "Save" -> "save_rlock"

Call(t) ==
    /\ boot = "running"
    /\ pc[t] = "idle"
    /\ calls < MaxCalls
    /\ calls' = calls + 1
    /\ \E name \in {"Get", "Set", "Delete", "Update", "All", "Save"} :
       \E k \in Keys :
       \E v \in Vals :
          /\ name \in {"All", "Save"} => k = 1
          /\ name \notin {"Set", "Update"} => v = 1
          /\ opn' = [opn EXCEPT ![t] = name]
          /\ key' = [key EXCEPT ![t] = k]
          /\ val' = [val EXCEPT ![t] = IF name \in {"Set", "Update"} THEN v ELSE NoVal]
          /\ pc' = [pc EXCEPT ![t] = Entry(name)]
          /\ setKeys' = IF name = "Set" /\ setKeys # {0} /\ k \notin setKeys
                        THEN setKeys \cup {k}
                        ELSE {0}
    /\ UNCHANGED <<mem, other, lock, locals, ret, files, faults, since,
                   lastSet, promise, anyErr, saves>>

\* The caller takes the results; the handler is free for its next call.
Return(t) ==
    /\ pc[t] = "done"
    /\ pc' = [pc EXCEPT ![t] = "idle"]
    /\ opn' = [opn EXCEPT ![t] = "none"]
    /\ key' = [key EXCEPT ![t] = 1]
    /\ val' = [val EXCEPT ![t] = NoVal]
    /\ snap' = [snap EXCEPT ![t] = EmptyMap]
    /\ ret' = [ret EXCEPT ![t] = NoRet]
    /\ since' = [since EXCEPT ![t] = {}]
    /\ UNCHANGED <<mem, lock, iter, data, fd, files, faults, calls, other,
                   lastSet, promise, anyErr, setKeys, saves>>

----------------------------------------------------------------------------
\* Store.Get

GetRLock(t) ==
    /\ pc[t] = "get_rlock"
    /\ CanRLock(t)
    /\ muR' = muR \cup {t}
    /\ pc' = [pc EXCEPT ![t] = "get_read"]
    /\ UNCHANGED <<mem, muW, args, locals, ret, files, faults, calls, other, hist>>

GetRead(t) ==
    /\ pc[t] = "get_read"
    /\ ret' = [ret EXCEPT ![t] =
                  Result(Lookup(links, key[t]) # NoVal, "nil",
                         Lookup(links, key[t]), Lookup(promise, key[t]))]
    /\ pc' = [pc EXCEPT ![t] = "get_runlock"]
    /\ UNCHANGED <<mem, lock, args, locals, files, faults, calls, other, hist>>

GetRUnlock(t) ==
    /\ pc[t] = "get_runlock"
    /\ muR' = muR \ {t}
    /\ pc' = [pc EXCEPT ![t] = "done"]
    /\ NoteReturn(t, "nil")
    /\ UNCHANGED <<mem, muW, args, locals, ret, files, faults, calls, other>>

----------------------------------------------------------------------------
\* Store.Set

SetLock(t) ==
    /\ pc[t] = "set_lock"
    /\ CanLock(t)
    /\ muW' = t
    /\ pc' = [pc EXCEPT ![t] = "set_write"]
    /\ UNCHANGED <<mem, muR, args, locals, ret, files, faults, calls, other, hist>>

\* Mutation of SetWrite: an existing key keeps its value.
SetWriteIfAbsent(t) ==
    /\ pc[t] = "set_write"
    /\ ~nilMap
    /\ links' = IF links[key[t]] = NoVal
                THEN [links EXCEPT ![key[t]] = val[t]]
                ELSE links
    /\ NoteMutation(t, key[t], val[t], TRUE)
    /\ pc' = [pc EXCEPT ![t] = "set_unlock"]
    /\ UNCHANGED <<nilMap, lock, args, locals, ret, files, faults, calls, other>>

SetWrite(t) ==
    /\ pc[t] = "set_write"
    /\ ~nilMap
    /\ links' = [links EXCEPT ![key[t]] = val[t]]
    /\ NoteMutation(t, key[t], val[t], TRUE)
    /\ pc' = [pc EXCEPT ![t] = "set_unlock"]
    /\ UNCHANGED <<nilMap, lock, args, locals, ret, files, faults, calls, other>>

SetUnlock(t) ==
    /\ pc[t] = "set_unlock"
    /\ muW' = 0
    /\ pc' = [pc EXCEPT ![t] = "save_rlock"]
    /\ UNCHANGED <<mem, muR, args, locals, ret, files, faults, calls, other, hist>>

----------------------------------------------------------------------------
\* Store.Delete

DeleteLock(t) ==
    /\ pc[t] = "del_lock"
    /\ CanLock(t)
    /\ muW' = t
    /\ pc' = [pc EXCEPT ![t] = "del_check"]
    /\ UNCHANGED <<mem, muR, args, locals, ret, files, faults, calls, other, hist>>

\* Mutation of DeleteCheck: the existence check is left out.
DeleteCheckSkipped(t) ==
    /\ pc[t] = "del_check"
    /\ pc' = [pc EXCEPT ![t] = "del_write"]
    /\ UNCHANGED <<mem, lock, args, locals, ret, files, faults, calls, other, hist>>

DeleteCheck(t) ==
    /\ pc[t] = "del_check"
    /\ pc' = [pc EXCEPT ![t] =
                 IF Lookup(links, key[t]) = NoVal THEN "del_miss" ELSE "del_write"]
    /\ UNCHANGED <<mem, lock, args, locals, ret, files, faults, calls, other, hist>>

\* Mutation of DeleteMiss: a Delete that finds its key absent goes on to a
\* persistence pass.
DeleteMissSaves(t) ==
    /\ pc[t] = "del_miss"
    /\ muW' = 0
    /\ pc' = [pc EXCEPT ![t] = "save_rlock"]
    /\ UNCHANGED <<mem, muR, args, locals, ret, files, faults, calls, other, hist>>

DeleteMiss(t) ==
    /\ pc[t] = "del_miss"
    /\ muW' = 0
    /\ ret' = [ret EXCEPT ![t] = Result(FALSE, "nil", NoVal, NoVal)]
    /\ pc' = [pc EXCEPT ![t] = "done"]
    /\ NoteReturn(t, "nil")
    /\ UNCHANGED <<mem, muR, args, locals, files, faults, calls, other>>

\* Mutation of DeleteWrite: the map is emptied.
DeleteWriteClearsMap(t) ==
    /\ pc[t] = "del_write"
    /\ links' = EmptyMap
    /\ NoteMutation(t, key[t], NoVal, FALSE)
    /\ pc' = [pc EXCEPT ![t] = "del_unlock"]
    /\ UNCHANGED <<nilMap, lock, args, locals, ret, files, faults, calls, other>>

DeleteWrite(t) ==
    /\ pc[t] = "del_write"
    /\ links' = [links EXCEPT ![key[t]] = NoVal]
    /\ NoteMutation(t, key[t], NoVal, FALSE)
    /\ pc' = [pc EXCEPT ![t] = "del_unlock"]
    /\ UNCHANGED <<nilMap, lock, args, locals, ret, files, faults, calls, other>>

DeleteUnlock(t) ==
    /\ pc[t] = "del_unlock"
    /\ muW' = 0
    /\ pc' = [pc EXCEPT ![t] = "save_rlock"]
    /\ UNCHANGED <<mem, muR, args, locals, ret, files, faults, calls, other, hist>>

----------------------------------------------------------------------------
\* Store.Update

UpdateLock(t) ==
    /\ pc[t] = "upd_lock"
    /\ CanLock(t)
    /\ muW' = t
    /\ pc' = [pc EXCEPT ![t] = "upd_check"]
    /\ UNCHANGED <<mem, muR, args, locals, ret, files, faults, calls, other, hist>>

\* Mutation of UpdateCheck: the existence check is left out.
UpdateCheckSkipped(t) ==
    /\ pc[t] = "upd_check"
    /\ pc' = [pc EXCEPT ![t] = "upd_write"]
    /\ UNCHANGED <<mem, lock, args, locals, ret, files, faults, calls, other, hist>>

UpdateCheck(t) ==
    /\ pc[t] = "upd_check"
    /\ pc' = [pc EXCEPT ![t] =
                 IF Lookup(links, key[t]) = NoVal THEN "upd_miss" ELSE "upd_write"]
    /\ UNCHANGED <<mem, lock, args, locals, ret, files, faults, calls, other, hist>>

UpdateMiss(t) ==
    /\ pc[t] = "upd_miss"
    /\ muW' = 0
    /\ ret' = [ret EXCEPT ![t] = Result(FALSE, "nil", NoVal, NoVal)]
    /\ pc' = [pc EXCEPT ![t] = "done"]
    /\ NoteReturn(t, "nil")
    /\ UNCHANGED <<mem, muR, args, locals, files, faults, calls, other>>

\* Mutation of UpdateWrite: the map is replaced by one with this entry only.
UpdateWriteReplacesMap(t) ==
    /\ pc[t] = "upd_write"
    /\ links' = [EmptyMap EXCEPT ![key[t]] = val[t]]
    /\ NoteMutation(t, key[t], val[t], FALSE)
    /\ pc' = [pc EXCEPT ![t] = "upd_unlock"]
    /\ UNCHANGED <<nilMap, lock, args, locals, ret, files, faults, calls, other>>

UpdateWrite(t) ==
    /\ pc[t] = "upd_write"
    /\ links' = [links EXCEPT ![key[t]] = val[t]]
    /\ NoteMutation(t, key[t], val[t], FALSE)
    /\ pc' = [pc EXCEPT ![t] = "upd_unlock"]
    /\ UNCHANGED <<nilMap, lock, args, locals, ret, files, faults, calls, other>>

UpdateUnlock(t) ==
    /\ pc[t] = "upd_unlock"
    /\ muW' = 0
    /\ pc' = [pc EXCEPT ![t] = "save_rlock"]
    /\ UNCHANGED <<mem, muR, args, locals, ret, files, faults, calls, other, hist>>

----------------------------------------------------------------------------
\* Store.All

AllRLock(t) ==
    /\ pc[t] = "all_rlock"
    /\ CanRLock(t)
    /\ muR' = muR \cup {t}
    /\ snap' = [snap EXCEPT ![t] = EmptyMap]
    /\ iter' = [iter EXCEPT ![t] = Present(links)]
    /\ pc' = [pc EXCEPT ![t] = "all_copy"]
    /\ UNCHANGED <<mem, muW, args, data, fd, ret, files, faults, calls, other, hist>>

\* One iteration of the range loop, in the map's arbitrary order.
AllCopy(t) ==
    /\ pc[t] = "all_copy"
    /\ IF iter[t] = {}
       THEN /\ pc' = [pc EXCEPT ![t] = "all_runlock"]
            /\ UNCHANGED <<iter, snap>>
       ELSE /\ \E k \in iter[t] :
                 /\ snap' = [snap EXCEPT ![t][k] = links[k]]
                 /\ iter' = [iter EXCEPT ![t] = iter[t] \ {k}]
            /\ UNCHANGED pc
    /\ UNCHANGED <<mem, lock, args, data, fd, ret, files, faults, calls, other, hist>>

AllRUnlock(t) ==
    /\ pc[t] = "all_runlock"
    /\ muR' = muR \ {t}
    /\ ret' = [ret EXCEPT ![t] = Result(TRUE, "nil", NoVal, NoVal)]
    /\ pc' = [pc EXCEPT ![t] = "done"]
    /\ NoteReturn(t, "nil")
    /\ UNCHANGED <<mem, muW, args, locals, files, faults, calls, other>>

\* The map object All returns: the snapshot map made for this call.
\* Mutation of AllResult: All returns the store's own map.
AllResultIsStoreMap(t) == <<"links", t>>

AllResult(t) == <<"snapshot", t>>

\* The content of a map object.
MapAt(ref) == IF ref[1] = "links" THEN links ELSE snap[ref[2]]

\* The caller of All writes an entry of the map it was given (v = NoVal:
\* deletes it).
CallerEdits(t) ==
    /\ pc[t] = "done"
    /\ opn[t] = "All"
    /\ \E k \in Keys :
       \E v \in Vals \cup {NoVal} :
          IF AllResult(t)[1] = "links"
          THEN /\ links' = [links EXCEPT ![k] = v]
               /\ UNCHANGED snap
          ELSE /\ snap' = [snap EXCEPT ![AllResult(t)[2]][k] = v]
               /\ UNCHANGED links
    /\ UNCHANGED <<nilMap, lock, pc, args, iter, data, fd, ret, files, faults,
                   calls, other, hist>>

----------------------------------------------------------------------------
\* Store.save, which Set, Delete, Update and Save end with.

\* Mutation of SaveRLock: the snapshot is taken without the read lock.
SaveRLockSkipped(t) ==
    /\ pc[t] = "save_rlock"
    /\ snap' = [snap EXCEPT ![t] = EmptyMap]
    /\ iter' = [iter EXCEPT ![t] = Present(links)]
    /\ pc' = [pc EXCEPT ![t] = "save_copy"]
    /\ UNCHANGED <<mem, lock, args, data, fd, ret, files, faults, calls, other, hist>>

SaveRLock(t) ==
    /\ pc[t] = "save_rlock"
    /\ CanRLock(t)
    /\ muR' = muR \cup {t}
    /\ snap' = [snap EXCEPT ![t] = EmptyMap]
    /\ iter' = [iter EXCEPT ![t] = Present(links)]
    /\ pc' = [pc EXCEPT ![t] = "save_copy"]
    /\ UNCHANGED <<mem, muW, args, data, fd, ret, files, faults, calls, other, hist>>

\* Mutation of SaveCopy: the range loop copies nothing.
SaveCopyNothing(t) ==
    /\ pc[t] = "save_copy"
    /\ pc' = [pc EXCEPT ![t] = "save_runlock"]
    /\ UNCHANGED <<mem, lock, args, locals, ret, files, faults, calls, other, hist>>

SaveCopy(t) ==
    /\ pc[t] = "save_copy"
    /\ IF iter[t] = {}
       THEN /\ pc' = [pc EXCEPT ![t] = "save_runlock"]
            /\ UNCHANGED <<iter, snap>>
       ELSE /\ \E k \in iter[t] :
                 /\ snap' = [snap EXCEPT ![t][k] = links[k]]
                 /\ iter' = [iter EXCEPT ![t] = iter[t] \ {k}]
            /\ UNCHANGED pc
    /\ UNCHANGED <<mem, lock, args, data, fd, ret, files, faults, calls, other, hist>>

\* RUnlock, then json.MarshalIndent of the snapshot.
SaveRUnlock(t) ==
    /\ pc[t] = "save_runlock"
    /\ muR' = muR \ {t}
    /\ data' = [data EXCEPT ![t] = Encode(snap[t])]
    /\ snap' = [snap EXCEPT ![t] = EmptyMap]
    /\ pc' = [pc EXCEPT ![t] = "save_open"]
    /\ UNCHANGED <<mem, muW, args, iter, fd, ret, files, faults, calls, other, hist>>

\* save returns to the caller of Set, Delete, Update or Save, which returns
\* (true, err) or err.
SaveReturns(t, e) ==
    /\ pc' = [pc EXCEPT ![t] = "done"]
    /\ ret' = [ret EXCEPT ![t] = Result(TRUE, e, NoVal, NoVal)]
    /\ data' = [data EXCEPT ![t] = <<>>]
    /\ NoteReturn(t, e)

\* os.WriteFile, first part: open with O_WRONLY|O_CREATE|O_TRUNC.
SaveOpen(t) ==
    /\ pc[t] = "save_open"
    /\ tmpFile' = File(<<>>)
    /\ fd' = [fd EXCEPT ![t] = "tmp"]
    /\ pc' = [pc EXCEPT ![t] = "save_write"]
    /\ UNCHANGED <<mem, lock, args, iter, snap, data, ret, dbFile, faults, calls, other, hist>>

\* The open fails (permissions, no space for the inode).
SaveOpenFails(t) ==
    /\ pc[t] = "save_open"
    /\ faults < MaxFaults
    /\ faults' = faults + 1
    /\ SaveReturns(t, "io")
    /\ UNCHANGED <<mem, lock, args, iter, snap, fd, files, calls, other>>

\* The descriptor of t writes chunk, into the file its inode
\* is now: the temp file, the database file once a rename has moved the
\* inode there, or no file at all once a later rename has replaced it.
FdWrite(t, chunk) ==
    /\ tmpFile' = IF fd[t] = "tmp"
                  THEN File(WriteAt(tmpFile.bytes, chunk))
                  ELSE tmpFile
    /\ dbFile' = IF fd[t] = "db"
                 THEN File(WriteAt(dbFile.bytes, chunk))
                 ELSE dbFile

\* os.WriteFile, second part: f.Write(data), one write(2) that takes all
\* of data, then close.
SaveWrite(t) ==
    /\ pc[t] = "save_write"
    /\ FdWrite(t, data[t])
    /\ data' = [data EXCEPT ![t] = <<>>]
    /\ fd' = [fd EXCEPT ![t] = "none"]
    /\ pc' = [pc EXCEPT ![t] = "save_rename"]
    /\ UNCHANGED <<mem, lock, args, iter, snap, ret, faults, calls, other, hist>>

\* The write fails (disk full) after n bytes: WriteFile closes the file and
\* returns the error, leaving what was written.
SaveWriteFails(t) ==
    /\ pc[t] = "save_write"
    /\ faults < MaxFaults
    /\ faults' = faults + 1
    /\ \E n \in 0..(Len(data[t]) - 1) : FdWrite(t, SubSeq(data[t], 1, n))
    /\ fd' = [fd EXCEPT ![t] = "none"]
    /\ SaveReturns(t, "io")
    /\ UNCHANGED <<mem, lock, args, iter, snap, calls, other>>

\* os.Rename(tmp, dbFile): the temp file's inode takes the database file's
\* name; a descriptor open on either inode stays open on it.  With no file
\* at the temp path the rename fails with ENOENT.
SaveRename(t) ==
    /\ pc[t] = "save_rename"
    /\ IF tmpFile.exists
       THEN /\ dbFile' = tmpFile
            /\ tmpFile' = NoFile
            /\ fd' = [u \in Procs |->
                         CASE fd[u] = "tmp" -> "db"
                           [] fd[u] = "db" -> "orphan"
                           [] OTHER -> fd[u]]
            /\ SaveReturns(t, "nil")
       ELSE /\ UNCHANGED <<files, fd>>
            /\ SaveReturns(t, "enoent")
    /\ UNCHANGED <<mem, lock, args, iter, snap, faults, calls, other>>

\* The rename fails for a reason of the filesystem's.
SaveRenameFails(t) ==
    /\ pc[t] = "save_rename"
    /\ faults < MaxFaults
    /\ faults' = faults + 1
    /\ SaveReturns(t, "io")
    /\ UNCHANGED <<mem, lock, args, iter, snap, fd, files, calls, other>>

----------------------------------------------------------------------------
\* One step of a store call of handler t.
StoreStep(t) ==
    \/ GetRLock(t)
    \/ GetRead(t)
    \/ GetRUnlock(t)
    \/ SetLock(t)
    \/ SetWrite(t)
    \/ SetUnlock(t)
    \/ DeleteLock(t)
    \/ DeleteCheck(t)
    \/ DeleteMiss(t)
    \/ DeleteWrite(t)
    \/ DeleteUnlock(t)
    \/ UpdateLock(t)
    \/ UpdateCheck(t)
    \/ UpdateMiss(t)
    \/ UpdateWrite(t)
    \/ UpdateUnlock(t)
    \/ AllRLock(t)
    \/ AllCopy(t)
    \/ AllRUnlock(t)
    \/ SaveRLock(t)
    \/ SaveCopy(t)
    \/ SaveRUnlock(t)
    \/ SaveOpen(t)
    \/ SaveOpenFails(t)
    \/ SaveWrite(t)
    \/ SaveWriteFails(t)
    \/ SaveRename(t)
    \/ SaveRenameFails(t)

\* One step of handler t.
Step(t) ==
    \/ Call(t)
    \/ Return(t)
    \/ StoreStep(t)
    \/ CallerEdits(t)

Next == \E t \in Procs : Step(t)

Spec == Init /\ [][Next]_vars

\* One handler at a time: the store as a sequential object.
SeqNext == Step(1)

SeqSpec == Init /\ [][SeqNext]_vars

----------------------------------------------------------------------------
\* New and Store.load, from any content of the database file.

MaxFileLen == 2

\* The destinations a database file may hold: json.Unmarshal takes any
\* string.  The last is one that validateURL refuses.
FileVals == 1..(NVals + 1)

Tokens == {Open, Close, Null} \cup (Keys \X FileVals \X {0, 1})

LoadFiles ==
    {NoFile}
    \cup {File(b) : b \in UNION {[1..n -> Tokens] : n \in 0..MaxFileLen}}
    \cup {File(Encode(m)) : m \in [Keys -> FileVals \cup {NoVal}]}

\* Before New: s.links is the map made at line 26.
LoadInit ==
    /\ dbFile \in LoadFiles
    /\ links = EmptyMap
    /\ nilMap = FALSE
    /\ boot = "new"
    /\ InitRest

\* os.ReadFile and json.Unmarshal succeed, or the file is missing or of zero
\* bytes: New returns the store.
NewStore ==
    /\ boot = "new"
    /\ LoadOk(dbFile)
    /\ links' = Load(dbFile)
    /\ nilMap' = (dbFile.exists /\ dbFile.bytes = <<Null>>)
    /\ boot' = "running"
    /\ UNCHANGED <<req, resp, lock, pc, args, locals, ret, files, faults, calls,
                   hist>>

\* json.Unmarshal reports an error: New returns it and no store.
NewStoreFails ==
    /\ boot = "new"
    /\ ~LoadOk(dbFile)
    /\ boot' = "failed"
    /\ UNCHANGED <<mem, req, resp, lock, pc, args, locals, ret, files, faults,
                   calls, hist>>

\* os.ReadFile fails on a file that exists: New returns the error.
NewStoreReadFails ==
    /\ boot = "new"
    /\ dbFile.exists
    /\ faults < MaxFaults
    /\ faults' = faults + 1
    /\ boot' = "failed"
    /\ UNCHANGED <<mem, req, resp, lock, pc, args, locals, ret, files, calls,
                   hist>>

\* Set on the nil map: the assignment panics with s.mu held; the deferred
\* calls of Set are none, so the lock stays held.
SetPanics(t) ==
    /\ pc[t] = "set_write"
    /\ nilMap
    /\ pc' = [pc EXCEPT ![t] = "panicked"]
    /\ UNCHANGED <<mem, lock, args, locals, ret, files, faults, calls, other, hist>>

LoadNext ==
    \/ NewStore
    \/ NewStoreFails
    \/ NewStoreReadFails
    \/ Step(1)
    \/ SetPanics(1)

LoadSpec == LoadInit /\ [][LoadNext]_vars

\* New from a database file of zero bytes, then the store calls of two
\* concurrent callers.
EmptyFileInit ==
    /\ dbFile = File(<<>>)
    /\ links = EmptyMap
    /\ nilMap = FALSE
    /\ boot = "new"
    /\ InitRest

EmptyFileNext ==
    \/ NewStore
    \/ \E t \in Procs : Step(t)

EmptyFileSpec == EmptyFileInit /\ [][EmptyFileNext]_vars

----------------------------------------------------------------------------
\* Strings.  A Go string is a sequence of bytes: a byte below 0x80 is
\* written as its ASCII character, a byte from 0x80 up as its two hex
\* digits.

maxKeyLength == 50
maxURLLength == 2048

Alphabet == <<"a", "b", "c", "d", "e", "f", "g", "h", "i", "j", "k", "l", "m",
              "n", "o", "p", "q", "r", "s", "t", "u", "v", "w", "x", "y", "z">>
UpperAlphabet == <<"A", "B", "C", "D", "E", "F", "G", "H", "I", "J", "K", "L",
                   "M", "N", "O", "P", "Q", "R", "S", "T", "U", "V", "W", "X",
                   "Y", "Z">>
Letters == {Alphabet[i] : i \in DOMAIN Alphabet}
           \cup {UpperAlphabet[i] : i \in DOMAIN UpperAlphabet}
Digits == {"0", "1", "2", "3", "4", "5", "6", "7", "8", "9"}
HighBytes == {"C3", "A9"}
\* The bytes below 0x20 used here.
ControlBytes == {"\t"}
\* unicode.IsSpace, on the bytes used here.
Spaces == {" ", "\t"}

\* strings.Repeat(c, n)
Rep(c, n) == <<>> \o [i \in 1..n |-> c]

\* The first place of s that holds a byte of set, 0 when there is none.
FirstIn(s, set) ==
    IF \E i \in 1..Len(s) : s[i] \in set
    THEN CHOOSE i \in 1..Len(s) :
            s[i] \in set /\ \A j \in 1..(i - 1) : s[j] \notin set
    ELSE 0

\* strings.Trim(s, cutset): s without its leading and trailing bytes of cut.
Trim(s, cut) ==
    IF \A i \in 1..Len(s) : s[i] \in cut
    THEN <<>>
    ELSE LET first == CHOOSE i \in 1..Len(s) :
                         s[i] \notin cut /\ \A j \in 1..(i - 1) : s[j] \in cut
             last == CHOOSE i \in 1..Len(s) :
                        s[i] \notin cut /\ \A j \in (i + 1)..Len(s) : s[j] \in cut
         IN  SubSeq(s, first, last)

TrimSpace(s) == Trim(s, Spaces)

HasPrefix(s, p) == Len(s) >= Len(p) /\ SubSeq(s, 1, Len(p)) = p

\* strings.SplitN(s, "/", 3)
SplitN3(s) ==
    LET i == FirstIn(s, {"/"})
        rest == SubSeq(s, i + 1, Len(s))
        j == FirstIn(rest, {"/"})
    IN  IF i = 0 THEN <<s>>
        ELSE IF j = 0 THEN <<SubSeq(s, 1, i - 1), rest>>
        ELSE <<SubSeq(s, 1, i - 1), SubSeq(rest, 1, j - 1),
               SubSeq(rest, j + 1, Len(rest))>>

\* strings.ToLower, on ASCII letters.
ToLower(s) ==
    <<>> \o [i \in 1..Len(s) |->
                IF \E n \in DOMAIN UpperAlphabet : UpperAlphabet[n] = s[i]
                THEN Alphabet[CHOOSE n \in DOMAIN UpperAlphabet :
                                 UpperAlphabet[n] = s[i]]
                ELSE s[i]]

\* The two hex digits of a byte that gets percent-encoded.
Hex(c) ==
    CASE c = "C3" -> <<"C", "3">>
      [] c = "A9" -> <<"A", "9">>
      [] c = "\t" -> <<"0", "9">>
      [] c = "/" -> <<"2", "F">>
      [] c = ":" -> <<"3", "A">>
      [] c = "=" -> <<"3", "D">>
      [] c = "?" -> <<"3", "F">>

\* url.QueryEscape: letters, digits and - _ . ~ stay, a space becomes +,
\* every other byte %XX.
RECURSIVE QueryEscape(_)
QueryEscape(s) ==
    IF s = <<>> THEN <<>>
    ELSE (IF Head(s) \in Letters \cup Digits \cup {"-", "_", ".", "~"}
          THEN <<Head(s)>>
          ELSE IF Head(s) = " " THEN <<"+">>
          ELSE <<"%">> \o Hex(Head(s)))
         \o QueryEscape(Tail(s))

\* net/http hexEscapeNonASCII: every byte from 0x80 up becomes %XX; a string
\* without such bytes is returned as it is.
RECURSIVE HexEscapeFrom(_)
HexEscapeFrom(s) ==
    IF s = <<>> THEN <<>>
    ELSE (IF Head(s) \in HighBytes THEN <<"%">> \o Hex(Head(s)) ELSE <<Head(s)>>)
         \o HexEscapeFrom(Tail(s))

\* Mutation of hexEscapeNonASCII: the string goes out as it is.
hexEscapeNothing(s) == s

hexEscapeNonASCII(s) ==
    IF \A i \in 1..Len(s) : s[i] \notin HighBytes THEN s ELSE HexEscapeFrom(s)

\* net/url getScheme, lower-cased as url.Parse does: the letters, digits and
\* + - . before the first colon, when the first byte is a letter; the empty
\* string when there is no such prefix.
SchemeOf(s) ==
    LET Stops(i) == /\ s[i] \notin Letters
                    /\ (i = 1 \/ s[i] \notin Digits \cup {"+", "-", "."})
        stop == IF \E i \in 1..Len(s) : Stops(i)
                THEN CHOOSE i \in 1..Len(s) :
                        Stops(i) /\ \A j \in 1..(i - 1) : ~Stops(j)
                ELSE 0
    IN  IF stop > 1 /\ s[stop] = ":" THEN ToLower(SubSeq(s, 1, stop - 1))
        ELSE <<>>

\* url.Parse returns an error: a control byte anywhere, a colon in first
\* place (missing protocol scheme), or a space in the host of scheme://host.
ParseFails(s) ==
    LET colon == FirstIn(s, {":"})
        rest == SubSeq(s, colon + 1, Len(s))
        auth == SubSeq(rest, 3, Len(rest))
        slash == FirstIn(auth, {"/", "?"})
        host == IF slash = 0 THEN auth ELSE SubSeq(auth, 1, slash - 1)
    IN  \/ \E i \in 1..Len(s) : s[i] \in ControlBytes
        \/ colon = 1
        \/ /\ SchemeOf(s) # <<>>
           /\ HasPrefix(rest, <<"/", "/">>)
           /\ \E i \in 1..Len(host) : host[i] = " "

http == <<"h", "t", "t", "p">>
https == <<"h", "t", "t", "p", "s">>

\* Mutation of validateURL: any URL that parses is accepted.
validateURLAnyScheme(s) == ~ParseFails(s)

validateURL(s) == ~ParseFails(s) /\ SchemeOf(s) \in {http, https}

\* validKeyRegex: ^[a-zA-Z0-9_-]+$
MatchKey(s) ==
    /\ s # <<>>
    /\ \A i \in 1..Len(s) : s[i] \in Letters \cup Digits \cup {"_", "-"}

----------------------------------------------------------------------------
\* The strings of the model.  Key k of the store is the string KeyName(k),
\* url v the string UrlName(v).

KeyName(k) ==
    IF k = 1 THEN Rep("a", maxKeyLength)
    ELSE <<"Z", "_", "-">> \o Rep("9", k - 1)

UrlName(v) ==
    IF v = 1
    THEN http \o <<":", "/", "/">> \o Rep("a", maxURLLength - 7)
    ELSE IF v \in Vals
    THEN <<"H", "T", "T", "P", "S", ":", "/", "/", "a", "/", "C3", "A9">>
         \o Rep("b", v - 2)
    ELSE <<"f", "t", "p", ":", "/", "/", "a">>

KeyTable == {<<k, KeyName(k)>> : k \in Keys}
UrlTable == {<<v, UrlName(v)>> : v \in Vals}

\* The number of a key string, 0 for a string that is no key of the model.
KeyId(s) ==
    IF \E p \in KeyTable : p[2] = s
    THEN (CHOOSE p \in KeyTable : p[2] = s)[1]
    ELSE 0

UrlId(s) ==
    IF \E p \in UrlTable : p[2] = s
    THEN (CHOOSE p \in UrlTable : p[2] = s)[1]
    ELSE 0

UrlOf(v) == (CHOOSE p \in UrlTable : p[1] = v)[2]

api == <<"a", "p", "i", "/">>
delete == <<"d", "e", "l", "e", "t", "e">>
update == <<"u", "p", "d", "a", "t", "e">>

\* Host headers.
Hosts ==
    << <<"g", "o">>,
       <<"g", "o", ".", "l", "o", "c", "a", "l">>,
       <<"g", "o", ":", "8", "0">>,
       <<"g", "o", ".", "l", "o", "c", "a", "l", ":", "8", "0", "8", "0">>,
       <<"g", "o", ":">>,
       <<"G", "o">>,
       <<"g", "o", ".", "l", "o", "c", "a", "l", "s">>,
       <<"p", "i", ".", "h", "o", "l", "e">>,
       <<"g", "o", "o", ":", "8", "0">>,
       <<>> >>

\* URL paths, as r.URL.Path holds them (percent-decoded).  Paths 13 to 15
\* are not clean.
Paths ==
    << <<"/">>,
       <<"/">> \o KeyName(1),
       <<"/">> \o KeyName(2) \o <<"/">>,
       <<"/", "a", " ", "b", "/", "C3", "A9">>,
       <<"/", "a", "p", "i">>,
       <<"/">> \o api \o delete \o <<"/">> \o KeyName(1),
       <<"/">> \o api \o delete \o <<"/">> \o KeyName(2),
       <<"/">> \o api \o update \o <<"/">> \o KeyName(1),
       <<"/">> \o api \o update \o <<"/">> \o KeyName(2) \o <<"/">>,
       <<"/">> \o api \o delete \o <<"/">>,
       <<"/">> \o api \o <<"g", "e", "t", "/">> \o KeyName(1),
       <<"/">> \o api \o delete \o <<"/">> \o KeyName(1) \o <<"/", "x">>,
       <<"/", "/">> \o KeyName(1),
       <<"/", "a", "/", ".", ".", "/">> \o KeyName(1),
       <<"/", ".", "/">>,
       <<"/">> \o api \o <<"g", "e", "t">>,
       <<"/">> \o api \o update \o <<"/">> >>

\* Values of the form field "key".
FormKeys ==
    << <<>>,
       <<" ", "\t">>,
       KeyName(1),
       <<" ">> \o KeyName(2) \o <<"\t">>,
       Rep("a", maxKeyLength + 1),
       <<"a", " ", "b">>,
       <<"C3", "A9">>,
       <<"a", "/", "b">> >>

\* Values of the form field "url".
FormUrls ==
    << <<>>,
       <<" ">>,
       UrlName(1),
       <<"\t">> \o UrlName(2) \o <<" ">>,
       UrlName(1) \o <<"a">>,
       <<"f", "t", "p", ":", "/", "/", "a">>,
       <<"a", ".", "b">>,
       <<"h", "t", "t", "p", ":", "/", "/", "a", " ", "b">> >>

Methods == {"GET", "POST", "PUT", "DELETE"}

\* path.Clean leaves the path as it is (ServeMux cleanPath): after the
\* leading slash no segment is empty, "." or "..", but for an empty last
\* segment (a trailing slash).
RECURSIVE CleanFrom(_)
CleanFrom(s) ==
    LET i == FirstIn(s, {"/"})
        seg == IF i = 0 THEN s ELSE SubSeq(s, 1, i - 1)
    IN  /\ seg \notin {<<".">>, <<".", ".">>}
        /\ i # 0 => (seg # <<>> /\ CleanFrom(SubSeq(s, i + 1, Len(s))))

IsCleanPath(p) == p # <<>> /\ p[1] = "/" /\ CleanFrom(Tail(p))

----------------------------------------------------------------------------
\* package web: what ServeHTTP does with a request before any store call.
\* The outcome is a response, or the store call to make.

Answer(code, loc) ==
    [kind |-> "respond", status |-> code, location |-> loc, op |-> "none",
     key |-> 0, val |-> NoVal]

StoreCall(name, k, v) ==
    [kind |-> "call", status |-> 0, location |-> <<>>, op |-> name,
     key |-> k, val |-> v]

createLink(r) ==
    LET k == TrimSpace(FormKeys[r.fkey])
        rawURL == TrimSpace(FormUrls[r.furl])
    IN  IF k = <<>> \/ rawURL = <<>> THEN Answer(400, <<>>)
        ELSE IF Len(k) > maxKeyLength \/ Len(rawURL) > maxURLLength
        THEN Answer(400, <<>>)
        ELSE IF ~MatchKey(k) THEN Answer(400, <<>>)
        ELSE IF ~validateURL(rawURL) THEN Answer(400, <<>>)
        ELSE StoreCall("Set", KeyId(k), UrlId(rawURL))

\* Mutation of handleRoot: PUT creates a link as POST does.
handleRootPostOrPut(r) ==
    IF r.method \in {"POST", "PUT"} THEN createLink(r)
    ELSE StoreCall("All", 1, NoVal)

handleRoot(r) ==
    IF r.method = "POST" THEN createLink(r) ELSE StoreCall("All", 1, NoVal)

handleRedirect(r, k) == StoreCall("Get", KeyId(k), NoVal)

\* Mutation of deleteLink: the method is not looked at.
deleteLinkAnyMethod(r, k) == StoreCall("Delete", KeyId(k), NoVal)

deleteLink(r, k) ==
    IF r.method \notin {"POST", "DELETE"} THEN Answer(405, <<>>)
    ELSE StoreCall("Delete", KeyId(k), NoVal)

\* Mutation of updateLink: the url is validated before the method is looked
\* at.
updateLinkUrlFirst(r, k) ==
    LET rawURL == TrimSpace(FormUrls[r.furl])
    IN  IF rawURL = <<>> THEN Answer(400, <<>>)
        ELSE IF Len(rawURL) > maxURLLength THEN Answer(400, <<>>)
        ELSE IF ~validateURL(rawURL) THEN Answer(400, <<>>)
        ELSE IF r.method \notin {"POST", "PUT"} THEN Answer(405, <<>>)
        ELSE StoreCall("Update", KeyId(k), UrlId(rawURL))

updateLink(r, k) ==
    LET rawURL == TrimSpace(FormUrls[r.furl])
    IN  IF r.method \notin {"POST", "PUT"} THEN Answer(405, <<>>)
        ELSE IF rawURL = <<>> THEN Answer(400, <<>>)
        ELSE IF Len(rawURL) > maxURLLength THEN Answer(400, <<>>)
        ELSE IF ~validateURL(rawURL) THEN Answer(400, <<>>)
        ELSE StoreCall("Update", KeyId(k), UrlId(rawURL))

\* Mutation of handleAPI: the action is looked at before the key segment.
handleAPIActionFirst(r, path) ==
    LET parts == SplitN3(path)
    IN  IF parts[2] \notin {delete, update} THEN Answer(404, <<>>)
        ELSE IF Len(parts) < 3 \/ parts[3] = <<>> THEN Answer(400, <<>>)
        ELSE IF parts[2] = delete THEN deleteLink(r, parts[3])
        ELSE updateLink(r, parts[3])

handleAPI(r, path) ==
    LET parts == SplitN3(path)
    IN  IF Len(parts) < 3 \/ parts[3] = <<>> THEN Answer(400, <<>>)
        ELSE IF parts[2] = delete THEN deleteLink(r, parts[3])
        ELSE IF parts[2] = update THEN updateLink(r, parts[3])
        ELSE Answer(404, <<>>)

ServeHTTP(r) ==
    LET path == Trim(Paths[r.path], {"/"})
    IN  IF path = <<>> THEN handleRoot(r)
        ELSE IF HasPrefix(path, api) THEN handleAPI(r, path)
        ELSE handleRedirect(r, path)

\* The requests that reach the handler: host "go", a clean path.
AllReqs ==
    {r \in [host : {1}, method : Methods, path : DOMAIN Paths,
            fkey : DOMAIN FormKeys, furl : DOMAIN FormUrls] :
        IsCleanPath(Paths[r.path])}

\* ServeHTTP of every request, computed once.
Served == [r \in AllReqs |-> ServeHTTP(r)] @@ <<>>
ServedAs(r) == Served[r]

\* http.Redirect: the Location header is the URL with its bytes from 0x80
\* up percent-encoded.  (A URL without scheme and host is first made
\* absolute against the request path; "/" and "/?key=..." stay as they are.)
\* Mutation of Redirect: no Location header is set.
RedirectWithoutLocation(url, code) ==
    [status |-> code, location |-> <<>>, by |-> "links"]

Redirect(url, code) ==
    [status |-> code, location |-> hexEscapeNonASCII(url), by |-> "links"]

Status(code) == [status |-> code, location |-> <<>>, by |-> "links"]

\* Mutation of Response: the error of the store call is not looked at.
ResponseErrorIgnored(t) ==
    CASE opn[t] = "Get" ->
            IF ret[t].ok THEN Redirect(UrlOf(ret[t].val), 302)
            ELSE Redirect(<<"/", "?", "k", "e", "y", "=">>
                            \o QueryEscape(Trim(Paths[req[t].path], {"/"})),
                          307)
      [] opn[t] = "Set" -> Redirect(<<"/">>, 303)
      [] opn[t] \in {"Delete", "Update"} ->
            IF ~ret[t].ok THEN Status(404)
            ELSE IF req[t].method = "POST" THEN Redirect(<<"/">>, 303)
            ELSE Status(204)
      [] opn[t] = "All" -> Status(200)

\* What the handler writes once its store call has returned.
Response(t) ==
    CASE opn[t] = "Get" ->
            IF ret[t].ok THEN Redirect(UrlOf(ret[t].val), 302)
            ELSE Redirect(<<"/", "?", "k", "e", "y", "=">>
                            \o QueryEscape(Trim(Paths[req[t].path], {"/"})),
                          307)
      [] opn[t] = "Set" ->
            IF ret[t].err # "nil" THEN Status(500) ELSE Redirect(<<"/">>, 303)
      [] opn[t] \in {"Delete", "Update"} ->
            IF ret[t].err # "nil" THEN Status(500)
            ELSE IF ~ret[t].ok THEN Status(404)
            ELSE IF req[t].method = "POST" THEN Redirect(<<"/">>, 303)
            ELSE Status(204)
      [] opn[t] = "All" -> Status(200)

MaxReqs == 2

\* The server accepts connections from ListenAndServe until srv.Shutdown
\* closes the listener: while Run waits for a signal and while it saves.
Listening == {"running", "saving"}

\* A request of the set R arrives; the handler validates it and answers, or
\* makes its store call.
Serve(t, R) ==
    /\ boot \in Listening
    /\ pc[t] = "idle"
    /\ calls < MaxReqs
    /\ calls' = calls + 1
    /\ \E r \in R :
          LET o == ServedAs(r)
          IN  /\ req' = [req EXCEPT ![t] = r]
              /\ IF o.kind = "call"
                 THEN /\ opn' = [opn EXCEPT ![t] = o.op]
                      /\ key' = [key EXCEPT ![t] = o.key]
                      /\ val' = [val EXCEPT ![t] = o.val]
                      /\ pc' = [pc EXCEPT ![t] = Entry(o.op)]
                      /\ UNCHANGED resp
                 ELSE /\ resp' = [resp EXCEPT ![t] =
                                     [status |-> o.status,
                                      location |-> o.location, by |-> "links"]]
                      /\ pc' = [pc EXCEPT ![t] = "responded"]
                      /\ UNCHANGED args
              /\ setKeys' = IF o.op = "Set" /\ setKeys # {0} /\ o.key \notin setKeys
                            THEN setKeys \cup {o.key}
                            ELSE {0}
    /\ UNCHANGED <<mem, boot, lock, locals, ret, files, faults, since, lastSet,
                   promise, anyErr, saves>>

\* The store call has returned: the handler writes its response.
Respond(t) ==
    /\ pc[t] = "done"
    /\ req[t] # NoReq
    /\ resp' = [resp EXCEPT ![t] = Response(t)]
    /\ pc' = [pc EXCEPT ![t] = "responded"]
    /\ UNCHANGED <<mem, boot, req, lock, args, locals, ret, files, faults,
                   calls, hist>>

\* ServeHTTP returns.
Finish(t) ==
    /\ pc[t] = "responded"
    /\ pc' = [pc EXCEPT ![t] = "idle"]
    /\ req' = [req EXCEPT ![t] = NoReq]
    /\ resp' = [resp EXCEPT ![t] = NoResp]
    /\ opn' = [opn EXCEPT ![t] = "none"]
    /\ key' = [key EXCEPT ![t] = 1]
    /\ val' = [val EXCEPT ![t] = NoVal]
    /\ snap' = [snap EXCEPT ![t] = EmptyMap]
    /\ ret' = [ret EXCEPT ![t] = NoRet]
    /\ since' = [since EXCEPT ![t] = {}]
    /\ UNCHANGED <<mem, boot, lock, iter, data, fd, files, faults, calls,
                   lastSet, promise, anyErr, setKeys, saves>>

\* The requests of the concurrent model: the form fields vary only where
\* the handler reads them.
WebReqs ==
    {r \in AllReqs :
        /\ r.path \in 1..9 \cup {12}
        /\ r.path = 1 => r.method \in {"GET", "POST"}
        /\ r.path \in 2..5 => r.method = "GET"
        /\ r.path \in 6..12 => r.method \in {"GET", "POST", "PUT", "DELETE"}
        /\ r.fkey \in (IF r.path = 1 /\ r.method = "POST" THEN {3, 4, 5} ELSE {1})
        /\ r.furl \in (IF \/ r.path = 1 /\ r.method = "POST"
                          \/ r.path \in {8, 9} /\ r.method \in {"POST", "PUT"}
                       THEN {3, 4, 6}
                       ELSE {1})}

\* Two handlers serve requests concurrently.
WebNext ==
    \E t \in Procs :
       \/ Serve(t, WebReqs)
       \/ Respond(t)
       \/ Finish(t)
       \/ StoreStep(t)

WebSpec == Init /\ [][WebNext]_vars

\* One handler serves every request, one at a time.
HandlerNext ==
    \/ Serve(1, AllReqs)
    \/ Respond(1)
    \/ Finish(1)
    \/ StoreStep(1)

HandlerSpec == Init /\ [][HandlerNext]_vars

----------------------------------------------------------------------------
\* package server: the mux in front of the link handler and the proxy.

MuxReqs ==
    [host : DOMAIN Hosts, method : Methods, path : {1, 2, 3, 13, 14, 15},
     fkey : {1}, furl : {1}]

\* The server accepts a request.
Accept(t) ==
    /\ boot = "running"
    /\ pc[t] = "idle"
    /\ calls < MaxReqs
    /\ calls' = calls + 1
    /\ \E r \in MuxReqs : req' = [req EXCEPT ![t] = r]
    /\ pc' = [pc EXCEPT ![t] = "mux"]
    /\ UNCHANGED <<mem, boot, resp, lock, args, locals, ret, files, faults, hist>>

\* strings.Split(r.Host, ":")[0]
\* Mutation of HostName: the port is not stripped.
HostNameWithPort(h) == h

HostName(h) ==
    IF FirstIn(h, {":"}) = 0 THEN h ELSE SubSeq(h, 1, FirstIn(h, {":"}) - 1)

\* ServeMux answers a request whose path is not clean with a redirect to
\* the clean path; the handler registered for "/" looks at the host.
Route(t) ==
    /\ pc[t] = "mux"
    /\ resp' = [resp EXCEPT ![t] =
                   IF ~IsCleanPath(Paths[req[t].path])
                   THEN [status |-> 301, location |-> <<>>, by |-> "mux"]
                   ELSE IF HostName(Hosts[req[t].host])
                             \in {<<"g", "o">>,
                                  <<"g", "o", ".", "l", "o", "c", "a", "l">>}
                   THEN [status |-> 0, location |-> <<>>, by |-> "links"]
                   ELSE [status |-> 0, location |-> <<>>, by |-> "proxy"]]
    /\ pc' = [pc EXCEPT ![t] = "responded"]
    /\ UNCHANGED <<mem, boot, req, lock, args, locals, ret, files, faults,
                   calls, hist>>

RouterNext ==
    \/ Accept(1)
    \/ Route(1)
    \/ Finish(1)

RouterSpec == Init /\ [][RouterNext]_vars

\* The mux and the link handler side by side: two handlers serve requests
\* concurrently, and handler 1 also takes requests that are followed through
\* the mux, to the handler chosen by the Host header.
FrontNext ==
    \/ Accept(1)
    \/ Route(1)
    \/ \E t \in Procs :
          \/ Serve(t, WebReqs)
          \/ Respond(t)
          \/ Finish(t)
          \/ StoreStep(t)

FrontSpec == Init /\ [][FrontNext]_vars

----------------------------------------------------------------------------
\* Server.Run from the termination signal on.  Process 1 is the goroutine
\* serving a request, process 2 the goroutine of Run.

Runner == 2

\* The requests of the shutdown model: the interface, a create, a
\* redirect, a delete, an update.
ShutdownReqs ==
    {r \in WebReqs : /\ r.path \in {1, 2, 6, 8}
                     /\ r.fkey \in {1, 3}
                     /\ r.furl \in {1, 3}
                     /\ r.method = (IF r.path = 2 THEN "GET" ELSE r.method)
                     /\ r.method \in {"GET", "POST"}
                     /\ r.path \in {6, 8} => r.method = "POST"}

\* A signal arrives on quit: Run leaves the select and calls s.store.Save().
Signal ==
    /\ boot = "running"
    /\ pc[Runner] = "idle"
    /\ boot' = "saving"
    /\ opn' = [opn EXCEPT ![Runner] = "Save"]
    /\ pc' = [pc EXCEPT ![Runner] = Entry("Save")]
    /\ UNCHANGED <<mem, req, resp, lock, key, val, locals, ret, files, faults,
                   calls, hist>>

\* Mutation of CallShutdown: an error of the final Save ends Run.
CallShutdownUnlessSaveFailed ==
    /\ boot = "saving"
    /\ pc[Runner] = "done"
    /\ boot' = IF ret[Runner].err # "nil" THEN "failed" ELSE "shutdown"
    /\ UNCHANGED <<mem, req, resp, lock, pc, args, locals, ret, files, faults,
                   calls, hist>>

\* Save has returned; its error is logged and Run calls srv.Shutdown(ctx),
\* which closes the listener.
CallShutdown ==
    /\ boot = "saving"
    /\ pc[Runner] = "done"
    /\ boot' = "shutdown"
    /\ UNCHANGED <<mem, req, resp, lock, pc, args, locals, ret, files, faults,
                   calls, hist>>

\* srv.Shutdown returns nil once no request is in flight: Run returns nil.
ShutdownReturns ==
    /\ boot = "shutdown"
    /\ pc[1] = "idle"
    /\ boot' = "stopped"
    /\ UNCHANGED <<mem, req, resp, lock, pc, args, locals, ret, files, faults,
                   calls, hist>>

\* The context expires after shutdownTimeout with a request still in
\* flight: srv.Shutdown returns the context's error and Run returns it.
\* The process ends, and the goroutine of the request with it.
ShutdownTimesOut ==
    /\ boot = "shutdown"
    /\ pc[1] # "idle"
    /\ boot' = "timeout"
    /\ pc' = [pc EXCEPT ![1] = "exited"]
    /\ UNCHANGED <<mem, req, resp, lock, args, locals, ret, files, faults,
                   calls, hist>>

ShutdownNext ==
    \/ Signal
    \/ CallShutdown
    \/ ShutdownReturns
    \/ ShutdownTimesOut
    \/ Serve(1, ShutdownReqs)
    \/ Respond(1)
    \/ Finish(1)
    \/ \E t \in Procs : StoreStep(t)

ShutdownSpec == Init /\ [][ShutdownNext]_vars

----------------------------------------------------------------------------
\* The single-file program (main.go): the store is a package variable, a
\* map with an embedded sync.RWMutex, and the database file is written in
\* place by saveLinks.  Process 1 is the goroutine serving a request,
\* process 2 the goroutine of main.

\* createLink up to the store: the key is validated, then the url.
mainCreateLink(r) ==
    LET k == TrimSpace(FormKeys[r.fkey])
        urlStr == TrimSpace(FormUrls[r.furl])
    IN  IF k = <<>> THEN Answer(400, <<>>)
        ELSE IF Len(k) > maxKeyLength THEN Answer(400, <<>>)
        ELSE IF ~MatchKey(k) THEN Answer(400, <<>>)
        ELSE IF urlStr = <<>> THEN Answer(400, <<>>)
        ELSE IF Len(urlStr) > maxURLLength THEN Answer(400, <<>>)
        ELSE IF ParseFails(urlStr) \/ SchemeOf(urlStr) \notin {http, https}
        THEN Answer(400, <<>>)
        ELSE StoreCall("Set", KeyId(k), UrlId(urlStr))

\* The create requests: POST to the empty path.
MainReqs == {r \in WebReqs : r.path = 1 /\ r.method = "POST"}

\* A create request arrives: handleGo calls createLink, which answers 400
\* or goes on to store.Lock().
HandleGo(t) ==
    /\ boot \in Listening
    /\ pc[t] = "idle"
    /\ calls < MaxReqs
    /\ calls' = calls + 1
    /\ \E r \in MainReqs :
          LET o == mainCreateLink(r)
          IN  /\ req' = [req EXCEPT ![t] = r]
              /\ IF o.kind = "call"
                 THEN /\ opn' = [opn EXCEPT ![t] = o.op]
                      /\ key' = [key EXCEPT ![t] = o.key]
                      /\ val' = [val EXCEPT ![t] = o.val]
                      /\ pc' = [pc EXCEPT ![t] = "create_lock"]
                      /\ UNCHANGED resp
                 ELSE /\ resp' = [resp EXCEPT ![t] = Status(o.status)]
                      /\ pc' = [pc EXCEPT ![t] = "responded"]
                      /\ UNCHANGED args
    /\ UNCHANGED <<mem, boot, lock, locals, ret, files, faults, hist>>

\* store.Lock()
CreateLinkLock(t) ==
    /\ pc[t] = "create_lock"
    /\ CanLock(t)
    /\ muW' = t
    /\ pc' = [pc EXCEPT ![t] = "create_write"]
    /\ UNCHANGED <<mem, muR, args, locals, ret, files, faults, calls, other, hist>>

\* store.Links[key] = urlStr, then the call of saveLinks with the lock held.
CreateLinkWrite(t) ==
    /\ pc[t] = "create_write"
    /\ links' = [links EXCEPT ![key[t]] = val[t]]
    /\ pc' = [pc EXCEPT ![t] = "save_create"]
    /\ UNCHANGED <<nilMap, lock, args, locals, ret, files, faults, calls, other,
                   hist>>

\* Where saveLinks returns to: createLink, or main.
AfterSaveLinks(t) == IF opn[t] = "Set" THEN "create_unlock" ELSE "done"

\* saveLinks: os.Create(dbFile) truncates the database file, or makes it.
SaveLinksCreate(t) ==
    /\ pc[t] = "save_create"
    /\ dbFile' = File(<<>>)
    /\ pc' = [pc EXCEPT ![t] = "save_readlock"]
    /\ UNCHANGED <<mem, lock, args, locals, ret, tmpFile, faults, calls, other,
                   hist>>

\* os.Create fails: saveLinks returns the error, before any defer.
SaveLinksCreateFails(t) ==
    /\ pc[t] = "save_create"
    /\ faults < MaxFaults
    /\ faults' = faults + 1
    /\ ret' = [ret EXCEPT ![t] = Result(TRUE, "io", NoVal, NoVal)]
    /\ pc' = [pc EXCEPT ![t] = AfterSaveLinks(t)]
    /\ UNCHANGED <<mem, lock, args, locals, files, calls, other, hist>>

\* store.RLock(): it waits while the write lock is held, by whichever
\* goroutine, the caller included.
SaveLinksRLock(t) ==
    /\ pc[t] = "save_readlock"
    /\ CanRLock(t)
    /\ muR' = muR \cup {t}
    /\ pc' = [pc EXCEPT ![t] = "save_encode"]
    /\ UNCHANGED <<mem, muW, args, locals, ret, files, faults, calls, other, hist>>

\* encoder.Encode(store.Links) writes the mapping to the file; the deferred
\* RUnlock and Close run, and saveLinks returns nil.
SaveLinksEncode(t) ==
    /\ pc[t] = "save_encode"
    /\ dbFile' = File(WriteAt(dbFile.bytes, Encode(links)))
    /\ muR' = muR \ {t}
    /\ ret' = [ret EXCEPT ![t] = Result(TRUE, "nil", NoVal, NoVal)]
    /\ pc' = [pc EXCEPT ![t] = AfterSaveLinks(t)]
    /\ UNCHANGED <<mem, muW, args, locals, tmpFile, faults, calls, other, hist>>

\* The write fails after n bytes: the deferred calls run and saveLinks
\* returns the error.
SaveLinksEncodeFails(t) ==
    /\ pc[t] = "save_encode"
    /\ faults < MaxFaults
    /\ faults' = faults + 1
    /\ \E n \in 0..(Len(Encode(links)) - 1) :
          dbFile' = File(WriteAt(dbFile.bytes, SubSeq(Encode(links), 1, n)))
    /\ muR' = muR \ {t}
    /\ ret' = [ret EXCEPT ![t] = Result(TRUE, "io", NoVal, NoVal)]
    /\ pc' = [pc EXCEPT ![t] = AfterSaveLinks(t)]
    /\ UNCHANGED <<mem, muW, args, locals, tmpFile, calls, other, hist>>

\* saveLinks has returned to createLink: store.Unlock(), then 500 for an
\* error and 303 to "/" for none.
CreateLinkRespond(t) ==
    /\ pc[t] = "create_unlock"
    /\ muW' = 0
    /\ resp' = [resp EXCEPT ![t] =
                   IF ret[t].err # "nil" THEN Status(500)
                   ELSE Redirect(<<"/">>, 303)]
    /\ pc' = [pc EXCEPT ![t] = "responded"]
    /\ UNCHANGED <<mem, boot, req, muR, args, locals, ret, files, faults, calls,
                   hist>>

\* A signal arrives on quit: main calls saveLinks, with no lock held.
MainSignal ==
    /\ boot = "running"
    /\ pc[Runner] = "idle"
    /\ boot' = "saving"
    /\ opn' = [opn EXCEPT ![Runner] = "Save"]
    /\ pc' = [pc EXCEPT ![Runner] = "save_create"]
    /\ UNCHANGED <<mem, req, resp, lock, key, val, locals, ret, files, faults,
                   calls, hist>>

\* One step of createLink or saveLinks in goroutine t.
MainStep(t) ==
    \/ CreateLinkLock(t)
    \/ CreateLinkWrite(t)
    \/ SaveLinksCreate(t)
    \/ SaveLinksCreateFails(t)
    \/ SaveLinksRLock(t)
    \/ SaveLinksEncode(t)
    \/ SaveLinksEncodeFails(t)
    \/ CreateLinkRespond(t)

MainNext ==
    \/ HandleGo(1)
    \/ Finish(1)
    \/ MainSignal
    \/ \E t \in Procs : MainStep(t)

\* A goroutine that can run does run, and a goroutine waiting for the
\* mutex gets it if it is free again and again.
MainFair ==
    \A t \in Procs :
       /\ WF_vars(MainStep(t))
       /\ SF_vars(CreateLinkLock(t))
       /\ SF_vars(SaveLinksRLock(t))

MainSpec == Init /\ [][MainNext]_vars /\ MainFair

----------------------------------------------------------------------------
\* Positions of a handler.
Mutations == {"Set", "Update", "Delete"}
WriterSection == {"set_write", "set_unlock", "del_check", "del_miss",
                  "del_write", "del_unlock", "upd_check", "upd_miss",
                  "upd_write", "upd_unlock"}
ReaderSection == {"get_read", "get_runlock", "all_copy", "all_runlock",
                  "save_copy", "save_runlock"}
\* From the temp file opened for writing to the rename over the database file.
TempSection == {"save_write", "save_rename"}

\* The bytes are the complete serialization of some mapping.
Complete(b) == WellFormed(b) /\ Encode(Decode(b)) = b

\* The database file holds what the mutation of t did to its key, or what
\* a later mutation of that key did.
Durable(t) ==
    /\ dbFile.exists
    /\ Complete(dbFile.bytes)
    /\ Decode(dbFile.bytes)[key[t]] \in since[t]

\* C1: whenever Set returns nil, or Update/Delete returns (true, nil), the
\* database file at that moment is a complete mapping that includes the
\* effect of the call or of a later mutation of the same key.
C1_DurableBeforeReturn ==
    [][\A t \in Procs :
          (/\ pc[t] # "done"
           /\ pc'[t] = "done"
           /\ opn[t] \in Mutations
           /\ ret'[t].ok
           /\ ret'[t].err = "nil") => Durable(t)']_vars

\* C2: at every instant the database file is absent or the complete
\* serialization of a mapping, never truncated or partially written.
C2_AtomicReplace == ~dbFile.exists \/ Complete(dbFile.bytes)

\* C3: no two persistence passes are at once between opening the temp file
\* for writing and completing its rename.
C3_NoTempFileRace == Cardinality({t \in Procs : pc[t] \in TempSection}) <= 1

\* C4: when every call has returned, none with an error, loading the
\* database file gives the in-memory mapping.
C4_RoundTrip ==
    ((\A t \in Procs : pc[t] \in {"idle", "done"}) /\ ~anyErr)
        => (LoadOk(dbFile) /\ Load(dbFile) = links)

\* C5: when all calls so far are Set calls on pairwise distinct keys and no
\* filesystem failure was injected, every call that has returned returned
\* nil and its key is in the store with its value.
C5_ConcurrentSets ==
    (setKeys # {0} /\ faults = 0)
        => \A t \in Procs :
              pc[t] = "done" => (ret[t].err = "nil" /\ links[key[t]] = val[t])

\* C6: a persistence pass started by a mutation takes its snapshot after
\* the mutation is in the map; the finished snapshot is the map as it
\* stands at that instant; and the bytes to write are the serialization of
\* a mapping that holds the mutation, or a later one of the same key.
C6_SnapshotAfterMutation ==
    \A t \in Procs :
       /\ (pc[t] \in {"save_rlock", "save_copy", "save_runlock"}
              /\ opn[t] \in Mutations)
             => links[key[t]] \in since[t]
       /\ pc[t] = "save_runlock" => snap[t] = links
       /\ pc[t] \in {"save_open", "save_write"}
             => /\ Complete(data[t])
                /\ opn[t] \in Mutations => Decode(data[t])[key[t]] \in since[t]

\* Two mutations are persisting at once, each about to write its snapshot.
C6_Witness ==
    \E t, u \in Procs :
       /\ t # u
       /\ pc[t] = "save_write" /\ opn[t] = "Update"
       /\ pc[u] = "save_write" /\ opn[u] = "Delete"

\* C7: writers are serialized, no reader is in its critical section while
\* a writer is in its own, and each call's result or effect agrees with the
\* map at the instant before it releases the lock: the check of Update and
\* Delete still holds when they write.
C7_Linearizable ==
    /\ Cardinality({t \in Procs : pc[t] \in WriterSection}) <= 1
    /\ (\E t \in Procs : pc[t] \in WriterSection)
          => ~(\E u \in Procs : pc[u] \in ReaderSection)
    /\ \A t \in Procs :
          /\ pc[t] = "get_runlock"
                => /\ ret[t].val = links[key[t]]
                   /\ ret[t].ok = (links[key[t]] # NoVal)
          /\ pc[t] = "all_runlock" => snap[t] = links
          /\ pc[t] \in {"set_unlock", "upd_unlock"} => links[key[t]] = val[t]
          /\ pc[t] \in {"del_unlock", "del_miss", "upd_miss"}
                => links[key[t]] = NoVal
          /\ pc[t] \in {"del_write", "upd_write"} => links[key[t]] # NoVal

\* An Update is about to write while a Delete of the same key and a Get
\* wait for the lock.
C7_Witness ==
    \E t, u \in Procs :
       /\ pc[t] = "upd_write"
       /\ pc[u] \in {"del_lock", "get_rlock"}
       /\ key[u] = key[t]

\* C8: a Get that reads a key for which a Set has returned, with no
\* mutation of the key since that Set's write, returns the Set's value and
\* true; and Set leaves its value in the map whether or not the key was
\* there.
C8_SetThenGet ==
    \A t \in Procs :
       /\ (opn[t] = "Get" /\ pc[t] \in {"get_runlock", "done"}
              /\ ret[t].exp # NoVal)
             => (ret[t].ok /\ ret[t].val = ret[t].exp)
       /\ pc[t] = "set_unlock" => links[key[t]] = val[t]

\* A Get, the second call made, has returned the value of the Set before it.
C8_Witness ==
    \E t \in Procs :
       /\ pc[t] = "done"
       /\ opn[t] = "Get"
       /\ ret[t].exp = 2
       /\ ret[t].val = 2
       /\ calls = 2
       /\ dbFile.exists

\* C9: an Update that finds its key absent goes on to unlock and return
\* (false, nil); its steps change neither the map nor the temp file nor the
\* database file, and it starts no persistence pass.
C9_UpdateAbsent ==
    [][\A t \in Procs :
          /\ (pc[t] = "upd_check" /\ links[key[t]] = NoVal /\ pc'[t] # pc[t])
                => /\ pc'[t] = "upd_miss"
                   /\ links' = links
                   /\ tmpFile' = tmpFile
                   /\ dbFile' = dbFile
          /\ (pc[t] = "upd_miss" /\ pc'[t] # pc[t])
                => /\ pc'[t] = "done"
                   /\ ret'[t].ok = FALSE
                   /\ ret'[t].err = "nil"
                   /\ links' = links
                   /\ links[key[t]] = NoVal
                   /\ tmpFile' = tmpFile
                   /\ dbFile' = dbFile]_vars

\* An Update of an absent key has returned false.
C9_Witness ==
    \E t \in Procs :
       /\ pc[t] = "done"
       /\ opn[t] = "Update"
       /\ ~ret[t].ok
       /\ links[key[t]] = NoVal

\* C10: a Delete that finds its key absent goes on to unlock and return
\* (false, nil); its steps change neither the map nor the temp file nor the
\* database file, and it starts no persistence pass.
C10_DeleteAbsent ==
    [][\A t \in Procs :
          /\ (pc[t] = "del_check" /\ links[key[t]] = NoVal /\ pc'[t] # pc[t])
                => /\ pc'[t] = "del_miss"
                   /\ links' = links
                   /\ tmpFile' = tmpFile
                   /\ dbFile' = dbFile
          /\ (pc[t] = "del_miss" /\ pc'[t] # pc[t])
                => /\ pc'[t] = "done"
                   /\ ret'[t].ok = FALSE
                   /\ ret'[t].err = "nil"
                   /\ links' = links
                   /\ links[key[t]] = NoVal
                   /\ tmpFile' = tmpFile
                   /\ dbFile' = dbFile]_vars

\* A Delete of an absent key has returned false.
C10_Witness ==
    \E t \in Procs :
       /\ pc[t] = "done"
       /\ opn[t] = "Delete"
       /\ ~ret[t].ok
       /\ links[key[t]] = NoVal

----------------------------------------------------------------------------
AllSection == {"all_rlock", "all_copy", "all_runlock"}
SaveSection == {"save_rlock", "save_copy", "save_runlock", "save_open",
                "save_write", "save_rename"}

\* Handler t takes a step.
Moves(t) == pc'[t] # pc[t] \/ iter'[t] # iter[t]

\* C12: All returns an independent snapshot.  No step of All changes the
\* store's mapping or a file; when All is about to return, the snapshot is
\* the mapping; and once All has returned, no step changes both the
\* store's mapping and the map that was returned: an edit of the returned
\* map leaves the store alone, a mutation of the store leaves the returned
\* map alone.
C12_AllSnapshot ==
    [][\A t \in Procs :
          /\ (pc[t] \in AllSection /\ Moves(t)) =>
                 (links' = links /\ nilMap' = nilMap /\ dbFile' = dbFile
                    /\ tmpFile' = tmpFile)
          /\ pc[t] = "all_runlock" => snap[t] = links
          /\ (pc[t] = "done" /\ opn[t] = "All" /\ pc'[t] = "done") =>
                 (links' = links \/ MapAt(AllResult(t))' = MapAt(AllResult(t)))
      ]_vars

\* All has returned a map that now differs from the store's mapping, while
\* the other handler is in the middle of a mutation.
C12_Witness ==
    \E t \in Procs :
    \E u \in Procs \ {t} :
       /\ pc[t] = "done"
       /\ opn[t] = "All"
       /\ MapAt(AllResult(t)) # links
       /\ MapAt(AllResult(t)) # EmptyMap
       /\ pc[u] \in {"set_unlock", "del_unlock", "upd_unlock"}

\* C13: Save is idempotent.  Once a Save has returned without error, and
\* as long as no mutation follows, the database file is the serialization
\* of the in-memory mapping, whether Save is called once or twice; and no
\* step of a persistence pass changes the in-memory mapping.
C13_SaveIdempotent ==
    [][/\ saves' >= 1 => dbFile' = File(Encode(links'))
       /\ \A t \in Procs :
             (pc[t] \in SaveSection /\ Moves(t)) => links' = links
      ]_vars

\* Save has returned without error twice with no mutation in between.
C13_Witness ==
    /\ saves = 2
    /\ pc[1] = "done"
    /\ opn[1] = "Save"
    /\ ret[1].err = "nil"
    /\ links # EmptyMap
    /\ dbFile = File(Encode(links))

\* C14: a database file that exists and does not decode as a JSON object
\* of string to string makes New return an error and no store, and no file
\* is written.  (A file of zero bytes is left out: it is loaded as the
\* empty store.)
C14_CorruptFile ==
    [][(boot = "new" /\ dbFile.exists /\ dbFile.bytes # <<>>
          /\ ~WellFormed(dbFile.bytes)) =>
          (boot' = "failed" /\ dbFile' = dbFile /\ tmpFile' = tmpFile)
      ]_vars

\* C15: with no database file, New returns a store with the empty mapping
\* (a map that can be written) and no error, and creates no file; the file
\* comes to exist only by the rename of a persistence pass.
C15_MissingFile ==
    [][/\ (boot = "new" /\ ~dbFile.exists) =>
             (boot' = "running" /\ links' = EmptyMap /\ ~nilMap'
                /\ dbFile' = dbFile /\ tmpFile' = tmpFile)
       /\ (~dbFile.exists /\ dbFile'.exists) =>
             \E t \in Procs : pc[t] = "save_rename" /\ pc'[t] = "done"
      ]_vars

\* The store made without a database file has taken a Set, and the
\* persistence pass of that Set is about to create the file.
C15_Witness ==
    /\ boot = "running"
    /\ ~dbFile.exists
    /\ pc[1] = "save_rename"
    /\ opn[1] = "Set"
    /\ links[key[1]] = val[1]
    /\ tmpFile = File(Encode(links))

----------------------------------------------------------------------------
\* Requests, as the claims below speak of them.

PathOf(r) == Trim(Paths[r.path], {"/"})
FormKey(r) == TrimSpace(FormKeys[r.fkey])
FormUrl(r) == TrimSpace(FormUrls[r.furl])

IsCreate(r) == r.method = "POST" /\ PathOf(r) = <<>>

\* /api/<action>/<key> with a key that is not empty.
IsApi(r, action) ==
    /\ Len(SplitN3(PathOf(r))) = 3
    /\ SplitN3(PathOf(r))[1] = <<"a", "p", "i">>
    /\ SplitN3(PathOf(r))[2] = action
    /\ SplitN3(PathOf(r))[3] # <<>>

IsUpdate(r) == r.method \in {"POST", "PUT"} /\ IsApi(r, update)
IsDelete(r) == r.method \in {"POST", "DELETE"} /\ IsApi(r, delete)
IsRedirect(r) == PathOf(r) # <<>> /\ ~HasPrefix(PathOf(r), api)

BadKey(k) ==
    \/ k = <<>>
    \/ Len(k) > maxKeyLength
    \/ \E i \in 1..Len(k) : k[i] \notin Letters \cup Digits \cup {"_", "-"}

\* The scheme is compared as url.Parse gives it, in lower case.
BadUrl(u) ==
    \/ u = <<>>
    \/ Len(u) > maxURLLength
    \/ SchemeOf(u) \notin {http, https}

\* The requests C19 speaks of: a create request with a bad key or url, an
\* update request with a bad url.  (A table, computed once.)
InvalidInput ==
    [r \in AllReqs |->
        \/ IsCreate(r) /\ (BadKey(FormKey(r)) \/ BadUrl(FormUrl(r)))
        \/ IsUpdate(r) /\ BadUrl(FormUrl(r))] @@ <<>>

\* The create requests with a key and a url that pass validation.
ValidCreate ==
    [r \in AllReqs |->
        /\ IsCreate(r)
        /\ ~BadKey(FormKey(r))
        /\ ~BadUrl(FormUrl(r))
        /\ ~ParseFails(FormUrl(r))] @@ <<>>

\* C11: when the persistence pass of a Set, Update or Delete fails, the
\* call returns the error with deleted/updated = true, the failing step
\* leaves the in-memory mapping as it is, with the mutation (or a later one
\* of the same key) still in it, and the handler's next step, without
\* another pass, is to answer 500, again leaving the mapping as it is.
C11_SaveFailure ==
    [][\A t \in Procs :
          /\ (pc[t] \in SaveSection /\ pc'[t] = "done" /\ ret'[t].err # "nil"
                /\ opn[t] \in Mutations) =>
                 /\ ret'[t].ok
                 /\ links' = links
                 /\ Lookup(links', key[t]) \in since'[t]
          /\ (pc[t] = "done" /\ pc'[t] # "done" /\ ret[t].err # "nil"
                /\ opn[t] \in Mutations) =>
                 /\ pc'[t] = "responded"
                 /\ resp'[t].status = 500
                 /\ links' = links
                 /\ Lookup(links', key[t]) \in since[t]
      ]_vars

\* A delete request has been answered 500 after its persistence pass
\* failed; the key is gone from the in-memory mapping and still in the
\* database file.
C11_Witness ==
    \E t \in Procs :
       /\ pc[t] = "responded"
       /\ IsDelete(req[t])
       /\ ret[t].ok
       /\ ret[t].err = "io"
       /\ resp[t].status = 500
       /\ links[key[t]] = NoVal
       /\ dbFile.exists
       /\ Decode(dbFile.bytes)[key[t]] # NoVal

\* The Host header names the link service: "go" or "go.local", alone or
\* followed by a colon and anything.
GoHost(h) ==
    \E name \in {<<"g", "o">>, <<"g", "o", ".", "l", "o", "c", "a", "l">>} :
       h = name \/ HasPrefix(h, name \o <<":">>)

C17_RedirectByKey ==
    \A t \in Procs :
       (pc[t] = "responded" /\ IsRedirect(req[t])) =>
          /\ opn[t] = "Get"
          /\ key[t] = KeyId(PathOf(req[t]))
          /\ IF ret[t].ok
             THEN /\ resp[t].status = 302
                  /\ resp[t].location = UrlOf(ret[t].val)
             ELSE /\ resp[t].status = 307
                  /\ resp[t].location =
                        <<"/", "?", "k", "e", "y", "=">> \o QueryEscape(PathOf(req[t]))

\* The string with every byte from 0x80 up percent-encoded.
PercentEncoded(u) ==
    IF \E i \in 1..Len(u) : u[i] \in HighBytes THEN HexEscapeFrom(u) ELSE u

\* C17, amended: the Location of the 302 is the stored destination with its
\* non-ASCII bytes percent-encoded.
C17_RedirectByKeyEncoded ==
    \A t \in Procs :
       (pc[t] = "responded" /\ IsRedirect(req[t])) =>
          /\ opn[t] = "Get"
          /\ key[t] = KeyId(PathOf(req[t]))
          /\ IF ret[t].ok
             THEN /\ resp[t].status = 302
                  /\ resp[t].location = PercentEncoded(UrlOf(ret[t].val))
             ELSE /\ resp[t].status = 307
                  /\ resp[t].location =
                        <<"/", "?", "k", "e", "y", "=">> \o QueryEscape(PathOf(req[t]))

\* A request for a key whose destination has non-ASCII bytes has been
\* answered 302, the Location being the destination percent-encoded.
C17_Witness ==
    \E t \in Procs :
       /\ pc[t] = "responded"
       /\ IsRedirect(req[t])
       /\ ret[t].ok
       /\ resp[t].status = 302
       /\ \E i \in 1..Len(UrlOf(ret[t].val)) : UrlOf(ret[t].val)[i] \in HighBytes
       /\ resp[t].location # UrlOf(ret[t].val)

\* C18: a POST to the empty path with a valid key and url, when no
\* filesystem operation has failed, is answered 303 to "/", with the
\* trimmed key mapped to the trimmed url (or to what a later mutation gave
\* it) in memory and in the database file.
C18_Create ==
    \A t \in Procs :
       (pc[t] = "responded" /\ ValidCreate[req[t]] /\ faults = 0) =>
          /\ resp[t].status = 303
          /\ resp[t].location = <<"/">>
          /\ KeyName(key[t]) = FormKey(req[t])
          /\ UrlOf(val[t]) = FormUrl(req[t])
          /\ links[key[t]] \in since[t]
          /\ Durable(t)

\* C19: a create request whose key is empty, longer than 50 bytes or
\* outside the alphabet, and a create or update request whose url is
\* empty, longer than 2048 bytes or of a scheme other than http and https,
\* is answered 400 in one step that makes no store call and leaves the
\* in-memory mapping and both files as they are, as does the return of the
\* handler.
C19_ValidationFailure ==
    [][\A t \in Procs :
          /\ (pc[t] = "idle" /\ req'[t] # NoReq /\ InvalidInput[req'[t]]) =>
                 /\ pc'[t] = "responded"
                 /\ resp'[t].status = 400
                 /\ opn'[t] = "none"
                 /\ links' = links
                 /\ dbFile' = dbFile
                 /\ tmpFile' = tmpFile
          /\ (pc[t] = "responded" /\ resp[t].status = 400) =>
                 (links' = links /\ dbFile' = dbFile /\ tmpFile' = tmpFile)
      ]_vars

\* An update request with an ftp url has been answered 400, after a create
\* request had put a link in the store.
C19_Witness ==
    /\ pc[1] = "responded"
    /\ IsUpdate(req[1])
    /\ SchemeOf(FormUrl(req[1])) = <<"f", "t", "p">>
    /\ resp[1].status = 400
    /\ links[2] # NoVal

\* C20: a POST or DELETE to /api/delete/{key}, when no filesystem
\* operation has failed, removes a key that is present and is answered 303
\* to "/" (POST) or 204 (DELETE), the key then being absent unless created
\* again; for an absent key it is answered 404.
C20_DeleteApi ==
    \A t \in Procs :
       (pc[t] = "responded" /\ IsDelete(req[t]) /\ faults = 0) =>
          /\ opn[t] = "Delete"
          /\ IF ret[t].ok
             THEN /\ resp[t].status = (IF req[t].method = "POST" THEN 303 ELSE 204)
                  /\ resp[t].location =
                        (IF req[t].method = "POST" THEN <<"/">> ELSE <<>>)
                  /\ links[key[t]] \in since[t]
             ELSE resp[t].status = 404

\* The update requests with a url that passes validation.
ValidUpdate ==
    [r \in AllReqs |->
        /\ IsUpdate(r)
        /\ ~BadUrl(FormUrl(r))
        /\ ~ParseFails(FormUrl(r))] @@ <<>>

\* C21: a POST or PUT to /api/update/{key} with a valid url, when no
\* filesystem operation has failed, gives a key that is present the trimmed
\* url and is answered 303 to "/" (POST) or 204 (PUT), the key then holding
\* that url (or what a later mutation gave it); for an absent key it is
\* answered 404 and the key is not created.
C21_UpdateApi ==
    \A t \in Procs :
       (pc[t] = "responded" /\ ValidUpdate[req[t]] /\ faults = 0) =>
          /\ opn[t] = "Update"
          /\ UrlOf(val[t]) = FormUrl(req[t])
          /\ IF ret[t].ok
             THEN /\ resp[t].status = (IF req[t].method = "POST" THEN 303 ELSE 204)
                  /\ resp[t].location =
                        (IF req[t].method = "POST" THEN <<"/">> ELSE <<>>)
                  /\ links[key[t]] \in since[t]
             ELSE /\ resp[t].status = 404
                  /\ since[t] = {}

\* The status the API dispatch owes a request for its action and method
\* alone, 0 when it owes none: 404 for an action other than delete and
\* update, 405 for delete without POST or DELETE and for update without
\* POST or PUT.
DispatchStatus(r) ==
    LET action == SplitN3(PathOf(r))[2]
    IN  IF action \notin {delete, update} THEN 404
        ELSE IF action = delete /\ r.method \notin {"POST", "DELETE"} THEN 405
        ELSE IF action = update /\ r.method \notin {"POST", "PUT"} THEN 405
        ELSE 0

\* (Tables, computed once.)
ApiError ==
    [r \in AllReqs |->
        IF HasPrefix(PathOf(r), api) THEN DispatchStatus(r) ELSE 0] @@ <<>>

ApiErrorWithKey ==
    [r \in AllReqs |->
        IF \E a \in {delete, update, <<"g", "e", "t">>} : IsApi(r, a)
        THEN DispatchStatus(r)
        ELSE 0] @@ <<>>

\* C22: a request under api/ for an action other than delete and update is
\* answered 404 whatever its method, a delete request with a method other
\* than POST and DELETE and an update request with a method other than POST
\* and PUT are answered 405, each in one step that makes no store call and
\* leaves the in-memory mapping and both files as they are, as does the
\* return of the handler.
C22_DispatchErrors ==
    [][\A t \in Procs :
          /\ (pc[t] = "idle" /\ req'[t] # NoReq /\ ApiError[req'[t]] # 0) =>
                 /\ pc'[t] = "responded"
                 /\ resp'[t].status = ApiError[req'[t]]
                 /\ opn'[t] = "none"
                 /\ links' = links
                 /\ dbFile' = dbFile
                 /\ tmpFile' = tmpFile
          /\ (pc[t] = "responded" /\ resp[t].status \in {404, 405}
                /\ opn[t] = "none") =>
                 (links' = links /\ dbFile' = dbFile /\ tmpFile' = tmpFile)
      ]_vars

\* C22, for the requests whose path has a key segment that is not empty
\* (api/<action>/<key>).
C22_DispatchErrorsWithKey ==
    [][\A t \in Procs :
          /\ (pc[t] = "idle" /\ req'[t] # NoReq /\ ApiErrorWithKey[req'[t]] # 0) =>
                 /\ pc'[t] = "responded"
                 /\ resp'[t].status = ApiErrorWithKey[req'[t]]
                 /\ opn'[t] = "none"
                 /\ links' = links
                 /\ dbFile' = dbFile
                 /\ tmpFile' = tmpFile
          /\ (pc[t] = "responded" /\ resp[t].status \in {404, 405}
                /\ opn[t] = "none") =>
                 (links' = links /\ dbFile' = dbFile /\ tmpFile' = tmpFile)
      ]_vars

\* A PUT to /api/get/{key}, the second request served, has been answered
\* 404, with a link in the store.
C22_Witness ==
    /\ pc[1] = "responded"
    /\ calls = 2
    /\ IsApi(req[1], <<"g", "e", "t">>)
    /\ req[1].method = "PUT"
    /\ resp[1].status = 404
    /\ links # EmptyMap

\* The keys and the destinations of the model that the link invariant
\* admits.  (Computed once.)
GoodKeys == {k \in Keys : ~BadKey(KeyName(k))}
GoodVals == {v \in FileVals : ~BadUrl(UrlName(v)) /\ ~ParseFails(UrlName(v))}

\* C23: in every state of the store, once New has returned it, every key
\* matches ^[A-Za-z0-9_-]{1,50}$ and every destination is a URL of at most
\* 2048 bytes whose scheme is http or https.
C23_LinkInvariant ==
    boot = "running" =>
       \A k \in Keys :
          links[k] # NoVal => (k \in GoodKeys /\ links[k] \in GoodVals)

\* The final Save of Run has taken its snapshot of the mapping.
FlushSnapshotTaken ==
    /\ boot \in {"saving", "shutdown", "stopped", "timeout"}
    /\ pc[Runner] \notin {"save_rlock", "save_copy"}

\* C24: from the moment the final flush has taken its snapshot no request
\* is accepted and no mutation is applied to the mapping: the listener was
\* closed before the flush.
C24_ShutdownOrdering ==
    [][FlushSnapshotTaken => (calls' = calls /\ links' = links)]_vars

\* C25: when the final Save returns an error, the next step of Run is to
\* call srv.Shutdown, and when that finds no request in flight Run returns
\* nil; the failed Save holds no lock that could keep a request in flight.
C25_FlushFailureNotFatal ==
    [][(ret[Runner].err \notin {"none", "nil"}) =>
          /\ Runner \notin muR
          /\ muW # Runner
          /\ (boot = "saving" /\ boot' # boot) => boot' = "shutdown"
          /\ (boot = "shutdown" /\ boot' # boot /\ pc[1] = "idle") =>
                 boot' = "stopped"
      ]_vars

\* Run has returned nil after a final Save that failed, with a mutation in
\* memory that the database file does not hold.
C25_Witness ==
    /\ boot = "stopped"
    /\ ret[Runner].err = "io"
    /\ dbFile # File(Encode(links))
    /\ calls > 0

\* C26: the database file never regresses.  While all calls so far are Set
\* calls on pairwise distinct keys the mapping only grows, so a snapshot
\* taken before a mutation lacks that mutation's key: a rename never
\* replaces a complete database file by a complete one that lacks one of
\* its keys.
C26_NoRegression ==
    [][\A t \in Procs :
          (/\ pc[t] = "save_rename"
           /\ pc'[t] = "done"
           /\ setKeys # {0}
           /\ dbFile.exists /\ Complete(dbFile.bytes)
           /\ dbFile'.exists /\ Complete(dbFile'.bytes)) =>
              Present(Decode(dbFile.bytes)) \subseteq Present(Decode(dbFile'.bytes))
      ]_vars

\* C27: every operation releases the lock on every path: a process holds
\* the write lock only between Lock and Unlock of Set, Delete or Update,
\* the read lock only between RLock and RUnlock of Get, All or save, and
\* neither while it opens, writes or renames a file - so no call waits
\* for a lock that nobody will release.
C27_LockReleased ==
    \A t \in Procs :
       /\ muW = t => pc[t] \in WriterSection
       /\ t \in muR => pc[t] \in ReaderSection
       /\ pc[t] \in {"save_open"} \cup TempSection => (muW # t /\ t \notin muR)

\* No key that createLink accepts starts with api/, so the path of an
\* accepted key is never taken for an API path.  (Computed once.)
NoShadow ==
    \A r \in AllReqs :
       ValidCreate[r] =>
          /\ ~HasPrefix(FormKey(r), api)
          /\ \A i \in 1..Len(FormKey(r)) : FormKey(r)[i] # "/"

\* C28: a request for the path of key k whose lookup comes after a create
\* of k with url u has returned, with no mutation of k since, is answered
\* 302 with Location u, whatever its method, when no store call has
\* returned an error (so that the create is answered 303); and no accepted
\* key is shadowed by the api/ dispatch.
C28_CreateThenRedirect ==
    /\ NoShadow
    /\ \A t \in Procs :
          (pc[t] = "responded" /\ IsRedirect(req[t]) /\ ret[t].exp # NoVal
              /\ ~anyErr) =>
             /\ KeyName(key[t]) = PathOf(req[t])
             /\ resp[t].status = 302
             /\ resp[t].location = UrlOf(ret[t].exp)

\* C28, with the Location as http.Redirect writes it: u with its non-ASCII
\* bytes percent-encoded.
C28_CreateThenRedirectEncoded ==
    /\ NoShadow
    /\ \A t \in Procs :
          (pc[t] = "responded" /\ IsRedirect(req[t]) /\ ret[t].exp # NoVal
              /\ ~anyErr) =>
             /\ KeyName(key[t]) = PathOf(req[t])
             /\ resp[t].status = 302
             /\ resp[t].location = PercentEncoded(UrlOf(ret[t].exp))

\* A request for the path of a key has been answered 302 with the url of
\* the create request that the other handler served before, a url of 2048
\* bytes.
C28_Witness ==
    \E t \in Procs :
       /\ pc[t] = "responded"
       /\ IsRedirect(req[t])
       /\ ret[t].exp # NoVal
       /\ resp[t].status = 302
       /\ resp[t].location = UrlOf(ret[t].exp)
       /\ Len(resp[t].location) = maxURLLength
       /\ ~anyErr
       /\ \E u \in Procs \ {t} : pc[u] = "idle"

\* C29: no step of an Update call changes the set of keys or the value of
\* a key other than the named one; a call that returns false has changed
\* nothing, and one that returns true has given the named key, which was
\* present, its value.
C29_UpdateKeepsKeys ==
    [][\A t \in Procs :
          (opn[t] = "Update" /\ Moves(t)) =>
             /\ Present(links') = Present(links)
             /\ \A k \in Keys \ {key[t]} : links'[k] = links[k]
             /\ pc[t] # "upd_write" => links' = links
             /\ pc[t] = "upd_write" => links'[key[t]] = val[t]
             /\ pc'[t] = "done" => (ret'[t].ok <=> since'[t] # {})
      ]_vars

\* Update has returned true with an error of its persistence pass: the
\* named key has the new value in memory and another one in the database
\* file, and the other key is in the store.
C29_Witness ==
    /\ pc[1] = "done"
    /\ opn[1] = "Update"
    /\ ret[1].ok
    /\ ret[1].err # "nil"
    /\ links[key[1]] = val[1]
    /\ dbFile.exists
    /\ Decode(dbFile.bytes)[key[1]] \notin {NoVal, val[1]}
    /\ \E k \in Keys \ {key[1]} : links[k] # NoVal

\* C30: Delete of a present key goes on to remove it and returns true; its
\* steps leave every other entry as it is and change the map only in
\* removing the key; a Get that reads an absent key reports absence; and
\* an absent key becomes present only by a step of Set.
C30_DeletePresent ==
    [][\A t \in Procs :
          /\ (opn[t] = "Delete" /\ Moves(t)) =>
                /\ \A k \in Keys \ {key[t]} : links'[k] = links[k]
                /\ (pc[t] = "del_check" /\ Lookup(links, key[t]) # NoVal) =>
                       pc'[t] = "del_write"
                /\ pc[t] = "del_write" =>
                       (links[key[t]] # NoVal /\ links'[key[t]] = NoVal)
                /\ pc[t] # "del_write" => links' = links
                /\ (pc'[t] = "done" /\ since'[t] # {}) => ret'[t].ok
          /\ (pc[t] = "get_read" /\ Moves(t) /\ Lookup(links, key[t]) = NoVal) =>
                ~ret'[t].ok
          /\ (links[key[t]] = NoVal /\ links'[key[t]] # NoVal /\ Moves(t)) =>
                (opn[t] = "Set" /\ pc[t] = "set_write")
      ]_vars

\* Get has reported absence of a key that a Delete removed: the key is
\* still in the database file, which no pass has replaced since, and the
\* other key is in the store.
C30_Witness ==
    /\ pc[1] = "done"
    /\ opn[1] = "Get"
    /\ ~ret[1].ok
    /\ links[key[1]] = NoVal
    /\ dbFile.exists
    /\ Decode(dbFile.bytes)[key[1]] # NoVal
    /\ \E k \in Keys \ {key[1]} : links[k] # NoVal

\* The status a delete or update request with a key segment is owed before
\* the key is looked up, 0 when it is owed none: 405 for a delete without
\* POST or DELETE and an update without POST or PUT, whatever the url; 400
\* for an update with POST or PUT whose url is missing or invalid.  (A
\* table, computed once.)
PrecedenceStatus ==
    [r \in AllReqs |->
        IF IsApi(r, delete)
        THEN (IF r.method \notin {"POST", "DELETE"} THEN 405 ELSE 0)
        ELSE IF IsApi(r, update)
        THEN (IF r.method \notin {"POST", "PUT"} THEN 405
              ELSE IF BadUrl(FormUrl(r)) \/ ParseFails(FormUrl(r)) THEN 400
              ELSE 0)
        ELSE 0] @@ <<>>

\* The key segment of an API request, as the number of the key; 0 when the
\* path has none.
ApiKey ==
    [r \in AllReqs |->
        IF Len(SplitN3(PathOf(r))) = 3 THEN KeyId(SplitN3(PathOf(r))[3])
        ELSE 0] @@ <<>>

\* C31: the API handlers check the method first, then the url, then the
\* key: a delete or update request for a key that is absent is answered 405
\* when its method is wrong and, an update with the right method, 400 when
\* its url is missing or invalid, never 404, in one step that makes no store
\* call, takes no lock and leaves the in-memory mapping and both files as
\* they are.
C31_CheckPrecedence ==
    [][\A t \in Procs :
          (/\ pc[t] = "idle"
           /\ req'[t] # NoReq
           /\ PrecedenceStatus[req'[t]] # 0
           /\ Lookup(links, ApiKey[req'[t]]) = NoVal) =>
              /\ pc'[t] = "responded"
              /\ resp'[t].status = PrecedenceStatus[req'[t]]
              /\ opn'[t] = "none"
              /\ links' = links
              /\ muW' = muW
              /\ muR' = muR
              /\ dbFile' = dbFile
              /\ tmpFile' = tmpFile
      ]_vars

\* A PUT to /api/update/{key} with an ftp url has been answered 400, the
\* key being absent from a store that holds another link.
C31_Witness ==
    /\ pc[1] = "responded"
    /\ IsApi(req[1], update)
    /\ req[1].method = "PUT"
    /\ SchemeOf(FormUrl(req[1])) = <<"f", "t", "p">>
    /\ resp[1].status = 400
    /\ opn[1] = "none"
    /\ Lookup(links, ApiKey[req[1]]) = NoVal
    /\ links # EmptyMap

\* The requests whose slash-trimmed path is api/<action> with nothing after
\* the action.  (A table, computed once.)
NoKeySegment ==
    [r \in AllReqs |->
        /\ HasPrefix(PathOf(r), api)
        /\ Len(SplitN3(PathOf(r))) = 2] @@ <<>>

\* C32: a request whose slash-trimmed path is api/<action> with no key
\* segment is answered 400, whatever its action (delete, update or any
\* other), its method and its form values, in one step that makes no store
\* call and leaves the in-memory mapping and both files as they are, as
\* does the return of the handler.
C32_NoKeySegment ==
    [][\A t \in Procs :
          /\ (pc[t] = "idle" /\ req'[t] # NoReq /\ NoKeySegment[req'[t]]) =>
                 /\ pc'[t] = "responded"
                 /\ resp'[t].status = 400
                 /\ opn'[t] = "none"
                 /\ links' = links
                 /\ dbFile' = dbFile
                 /\ tmpFile' = tmpFile
          /\ (pc[t] = "responded" /\ NoKeySegment[req[t]]) =>
                 (links' = links /\ dbFile' = dbFile /\ tmpFile' = tmpFile)
      ]_vars

\* A DELETE to /api/get, an action the dispatch does not know, has been
\* answered 400, with a link in the store.
C32_Witness ==
    /\ pc[1] = "responded"
    /\ PathOf(req[1]) = api \o <<"g", "e", "t">>
    /\ req[1].method = "DELETE"
    /\ resp[1].status = 400
    /\ opn[1] = "none"
    /\ links # EmptyMap

\* The request handler t serves is read-only, as far as the state tells: it
\* renders the interface or looks a key up, it has been handed to the
\* proxy, it has been answered 404 or 405, or it is a delete or update that
\* has found its key absent or has not yet looked while the key is absent.
ReadOnly(t) ==
    \/ opn[t] \in {"Get", "All"}
    \/ resp[t].by = "proxy"
    \/ resp[t].status \in {404, 405}
    \/ /\ opn[t] \in {"Delete", "Update"}
       /\ \/ pc[t] \in {"del_miss", "upd_miss"}
          \/ pc[t] = "done" /\ ~ret[t].ok
          \/ /\ pc[t] \in {"del_lock", "del_check", "upd_lock", "upd_check"}
             /\ Lookup(links, key[t]) = NoVal

\* C33: no step of a read-only request changes the in-memory mapping or a
\* file, and none is a step of a persistence pass or leads into one; a
\* delete or update answered 404 has made no mutation and returned from the
\* branch that found the key absent.
C33_ReadOnlyRequests ==
    [][\A t \in Procs :
          /\ (Moves(t) /\ (ReadOnly(t) \/ ReadOnly(t)')) =>
                 /\ links' = links
                 /\ nilMap' = nilMap
                 /\ dbFile' = dbFile
                 /\ tmpFile' = tmpFile
                 /\ pc[t] \notin SaveSection
                 /\ pc'[t] \notin SaveSection
          /\ (pc[t] # "responded" /\ pc'[t] = "responded"
                /\ resp'[t].status \in {404, 405}) =>
                 /\ since'[t] = {}
                 /\ opn[t] = "none" \/ (pc[t] = "done" /\ ~ret[t].ok)
          /\ (pc'[t] = "done" /\ pc[t] # "done" /\ ~ret'[t].ok
                /\ opn[t] \in {"Delete", "Update"}) =>
                 pc[t] \in {"del_miss", "upd_miss"}
      ]_vars

\* A delete request has been answered 404, its key absent from a store
\* that holds a link, and the other handler's request has been handed to the
\* proxy.
C33_Witness ==
    \E t \in Procs :
    \E u \in Procs \ {t} :
       /\ pc[t] = "responded"
       /\ opn[t] = "Delete"
       /\ resp[t].status = 404
       /\ key[t] \in Keys
       /\ links[key[t]] = NoVal
       /\ links # EmptyMap
       /\ pc[u] = "responded"
       /\ resp[u].by = "proxy"

\* The requests to the empty path with a method other than POST.  (A
\* table, computed once.)
RootNotPost ==
    [r \in AllReqs |-> PathOf(r) = <<>> /\ r.method # "POST"] @@ <<>>

\* C34: a request to the empty path with a method other than POST makes
\* the handler call All and answer 200 with the interface, whatever its
\* form values, and no step of it changes the in-memory mapping or a file;
\* and every step that makes an absent key present is a step of a POST to
\* the empty path.
C34_RootMethods ==
    [][\A t \in Procs :
          /\ (pc[t] = "idle" /\ req'[t] # NoReq /\ RootNotPost[req'[t]]) =>
                 (opn'[t] = "All" /\ pc'[t] = "all_rlock")
          /\ (req[t] # NoReq /\ RootNotPost[req[t]] /\ Moves(t)) =>
                 /\ opn[t] = "All"
                 /\ links' = links
                 /\ dbFile' = dbFile
                 /\ tmpFile' = tmpFile
                 /\ pc'[t] = "responded" => resp'[t].status = 200
          /\ (Moves(t) /\ Present(links') \ Present(links) # {}) =>
                 (req[t].method = "POST" /\ PathOf(req[t]) = <<>>)
      ]_vars

\* A PUT to the empty path whose form holds a valid key and a valid url has
\* been answered 200, and the key is absent from the store.
C34_Witness ==
    /\ pc[1] = "responded"
    /\ PathOf(req[1]) = <<>>
    /\ req[1].method = "PUT"
    /\ resp[1].status = 200
    /\ ~BadKey(FormKey(req[1]))
    /\ ~BadUrl(FormUrl(req[1]))
    /\ Lookup(links, KeyId(FormKey(req[1]))) = NoVal
    /\ links # EmptyMap

\* C35: from a database file of zero bytes that it can read, New returns a
\* store with the empty mapping (a map that can be written) and no error,
\* and writes no file; and when no filesystem operation has failed, the
\* rename of the next persistence pass to return nil puts the complete
\* serialization of a mapping in place of the zero-byte file.
C35_ZeroByteFile ==
    [][/\ (boot = "new" /\ dbFile = File(<<>>) /\ faults' = faults) =>
             (boot' = "running" /\ links' = EmptyMap /\ ~nilMap'
                /\ dbFile' = dbFile /\ tmpFile' = tmpFile)
       /\ \A t \in Procs :
             (/\ dbFile = File(<<>>)
              /\ faults = 0
              /\ pc[t] = "save_rename"
              /\ pc'[t] = "done"
              /\ ret'[t].err = "nil") => Complete(dbFile'.bytes)
      ]_vars

\* C36: in the single-file program every create request with a valid key
\* and url that has reached the store is in the end answered 303 or 500,
\* with the write lock no longer held by its goroutine.
C36_CreateAnswered ==
    \A t \in Procs :
       (pc[t] = "create_lock") ~>
          (pc[t] = "responded" /\ resp[t].status \in {303, 500} /\ muW # t)

====
